---- MODULE Spec2Model ----
(***************************************************************************)
(* Slide mapping manager, PPTX export jobs and text-frame rendering of     *)
(* Ghostwriter's reportwriter:                                             *)
(*   base/slide_mapping.py  SlideConfig, SlideMappingManager               *)
(*   base/pptx.py           ExportBasePptx (lint, process_footers, run),   *)
(*                          clone_placeholder, create_static_slide,        *)
(*                          set_text_preserving_format,                    *)
(*                          copy_text_from_layout_preserving_format,       *)
(*                          render_jinja2_in_textframe,                    *)
(*                          render_jinja2_in_shape                         *)
(*   report/pptx.py         ExportReportPptx                               *)
(*   project/pptx.py        ProjectSlidesMixin, ExportProjectPptx          *)
(*                                                                         *)
(* Seven specifications share the variables:                               *)
(*   SpecMapping     a manager built from a persisted mapping document,    *)
(*                   and its layout and ordering queries;                  *)
(*   SpecQueries     the same manager under get_slide_config,              *)
(*                   is_slide_enabled, validate and to_dict;               *)
(*   SpecExport      one export job, from the constructor to the saved     *)
(*                   deck;                                                 *)
(*   SpecFooters     the footer post-pass over a deck of slides;           *)
(*   SpecText        one call of a text function on a shape;               *)
(*   SpecLayoutText  one call that copies or inherits a layout             *)
(*                   placeholder's text into a shape of a slide;           *)
(*   SpecLint        one call of lint on a template file.                  *)
(***************************************************************************)
EXTENDS Integers, Sequences, FiniteSets, TLC

VARIABLES
    slide_mapping,  \* ReportTemplate.slide_mapping, the persisted JSON document
    mapping_data,   \* SlideMappingManager.mapping_data
    slides,         \* SlideMappingManager.slides
    bound,          \* SlideMappingManager.presentation is not None
    slide_layouts,  \* presentation.slide_layouts: each layout is the list of its placeholders' names
    result,         \* the value returned by the last query made on the manager
    job,            \* which exporter runs: "report" (ExportReportPptx) or "project" (ExportProjectPptx)
    base_context,   \* the report data read by the builders: how many findings and observations
    pc,             \* where the job is: "run", "loop", "footers", "save", "done" or "raised"
    slides_config,  \* run()'s local list, the result of get_slides_by_position()
    pos,            \* how many entries of slides_config the loop of run() has processed
    deck,           \* ppt_presentation.slides
    exc,            \* the exception that left run(), "none" if none did
    out,            \* the saved deck returned by run(), <<>> before it is saved
    text_shape,     \* the shape a text function works on: has_text_frame and its paragraphs
    call            \* the call made on the shape: its arguments, the shape as it was
                    \* passed, and the exception that left the call

mgr_vars == <<slide_mapping, mapping_data, slides, bound, slide_layouts>>
job_vars == <<job, base_context, pc, slides_config, pos, deck, exc, out>>
txt_vars == <<text_shape, call>>
vars == <<slide_mapping, mapping_data, slides, bound, slide_layouts, result,
          job, base_context, pc, slides_config, pos, deck, exc, out, text_shape, call>>

(***************************************************************************)
(* Bounds and input sets.                                                  *)
(***************************************************************************)
\* Most layouts a template has.
MaxLayouts == 2
\* Largest fallback index passed to get_layout_index.
MaxFallback == 1
\* Most findings plus observations a report holds.
MaxItems == 2
\* Numbers of entries of the mapping documents.
DocLengths == {0, 1, 2}
\* Values of an entry's layout_index: in range, out of range or either, by the template.
LayoutIndexes == {0, 1, 2}
\* Values of an entry's position: two distinct ones, so that ties and inversions occur.
Positions == {1, 2}
\* Values of an entry's mode: the two valid ones and one that validate() rejects.
Modes == {"static", "dynamic", "dynamic-ish"}
\* Slide types of the mapping documents: one both exporters build, two that only the
\* report exporter builds, one that no dispatcher knows.
Types == {"title", "finding", "observation", "custom_x"}

(***************************************************************************)
(* SlideConfig and the JSON documents.                                     *)
(***************************************************************************)
Keys == {"type", "layout_index", "mode", "enabled", "position"}

\* The keys SlideConfig.from_dict reads with data[...]; "enabled" is read with .get().
RequiredKeys == {"type", "layout_index", "mode", "position"}

SlideConfig(t, li, m, en, p) ==
    [type |-> t, layout_index |-> li, mode |-> m, enabled |-> en, position |-> p]

\* An element of a document's "slides" list: a JSON object with the keys in `keys`
\* (the fields of absent keys are not read), or a JSON value that is not an object.
RawEntry(isDict, keys, t, li, m, en, p) ==
    [isDict |-> isDict, keys |-> keys, type |-> t, layout_index |-> li, mode |-> m,
     enabled |-> en, position |-> p]

Entry(t, li, m, en, p) == RawEntry(TRUE, Keys, t, li, m, en, p)

\* A document: None, a JSON value that is not an object, or an object whose "slides"
\* key is missing, holds a value that cannot be iterated, or holds a list.
\* The "version" key of an object is left out (hasVersion false) unless VersionedDoc
\* sets it.
Doc(kind, slidesKind, s) ==
    [kind |-> kind, slidesKind |-> slidesKind, slides |-> s, hasVersion |-> FALSE, version |-> 0]

VersionedDoc(d, v) == [d EXCEPT !.hasVersion = TRUE, !.version = v]

DEFAULT_MAPPING ==
    VersionedDoc(Doc("dict", "list", <<
        Entry("title", 0, "dynamic", TRUE, 1),
        Entry("agenda", 1, "dynamic", TRUE, 2),
        Entry("introduction", 1, "dynamic", TRUE, 3),
        Entry("assessment_details", 1, "dynamic", TRUE, 4),
        Entry("methodology", 1, "dynamic", TRUE, 5),
        Entry("timeline", 1, "dynamic", TRUE, 6),
        Entry("attack_path", 1, "dynamic", TRUE, 7),
        Entry("observations_overview", 1, "dynamic", TRUE, 8),
        Entry("observation", 1, "dynamic", TRUE, 9),
        Entry("findings_overview", 1, "dynamic", TRUE, 10),
        Entry("finding", 1, "dynamic", TRUE, 11),
        Entry("recommendations", 1, "dynamic", TRUE, 12),
        Entry("next_steps", 1, "dynamic", TRUE, 13),
        Entry("final", 12, "dynamic", TRUE, 14) >>), 1)

\* SlideConfig.from_dict: data["type"] on a value that is not an object raises
\* TypeError, a missing required key raises KeyError, a missing "enabled" is True.
from_dict(data) ==
    IF ~data.isDict THEN [exc |-> "TypeError"]
    ELSE IF ~(RequiredKeys \subseteq data.keys) THEN [exc |-> "KeyError"]
    ELSE [exc |-> "none",
          cfg |-> SlideConfig(data.type, data.layout_index, data.mode,
                              IF "enabled" \in data.keys THEN data.enabled ELSE TRUE,
                              data.position)]

\* ParseEntries with `break` in place of `continue`: the first entry that fails to
\* parse ends the loop.
RECURSIVE ParseEntries_break(_)
ParseEntries_break(slides_data) ==
    IF slides_data = <<>> THEN <<>>
    ELSE LET r == from_dict(Head(slides_data))
         IN  IF r.exc = "none" THEN <<r.cfg>> \o ParseEntries_break(Tail(slides_data)) ELSE <<>>

\* The loop of _parse_slides: an entry whose from_dict raises is skipped.
RECURSIVE ParseEntries(_)
ParseEntries(slides_data) ==
    IF slides_data = <<>> THEN <<>>
    ELSE LET r == from_dict(Head(slides_data))
         IN  (IF r.exc = "none" THEN <<r.cfg>> ELSE <<>>) \o ParseEntries(Tail(slides_data))

\* _parse_slides with mapping_data["slides"] in place of .get("slides", []): a
\* missing key raises.
_parse_slides_subscript(md) ==
    IF md.slidesKind = "missing" THEN [exc |-> "KeyError", slides |-> <<>>]
    ELSE IF md.slidesKind = "noniterable" THEN [exc |-> "TypeError", slides |-> <<>>]
    ELSE [exc |-> "none", slides |-> ParseEntries(md.slides)]

\* SlideMappingManager._parse_slides on a mapping_data that is an object.
_parse_slides(md) ==
    IF md.slidesKind = "missing" THEN [exc |-> "none", slides |-> <<>>]
    ELSE IF md.slidesKind = "noniterable" THEN [exc |-> "TypeError", slides |-> <<>>]
    ELSE [exc |-> "none", slides |-> ParseEntries(md.slides)]

\* SlideMappingManager.__init__: the pair of mapping_data and slides it leaves.
Construct(d) ==
    LET md == IF d.kind # "dict" THEN DEFAULT_MAPPING ELSE d
        r  == _parse_slides(md)
    IN  IF r.exc = "none"
        THEN [mapping_data |-> md, slides |-> r.slides]
        ELSE [mapping_data |-> DEFAULT_MAPPING,
              slides |-> _parse_slides(DEFAULT_MAPPING).slides]

(***************************************************************************)
(* The manager's queries.                                                  *)
(***************************************************************************)
\* get_slide_config that keeps looking after a match: the last entry of the type.
RECURSIVE get_slide_config_last(_, _)
get_slide_config_last(s, slide_type) ==
    IF s = <<>> THEN [found |-> FALSE]
    ELSE IF s[Len(s)].type = slide_type THEN [found |-> TRUE, cfg |-> s[Len(s)]]
    ELSE get_slide_config_last(SubSeq(s, 1, Len(s) - 1), slide_type)

\* SlideMappingManager.get_slide_config: the first entry of the type, if any.
RECURSIVE get_slide_config(_, _)
get_slide_config(s, slide_type) ==
    IF s = <<>> THEN [found |-> FALSE]
    ELSE IF Head(s).type = slide_type THEN [found |-> TRUE, cfg |-> Head(s)]
    ELSE get_slide_config(Tail(s), slide_type)

\* get_layout_index with `>` in place of `>=`.
get_layout_index_gt(s, isBound, layouts, slide_type, fallback) ==
    LET config == get_slide_config(s, slide_type)
    IN  IF ~config.found \/ ~config.cfg.enabled THEN fallback
        ELSE IF isBound /\ config.cfg.layout_index > Len(layouts) THEN fallback
        ELSE config.cfg.layout_index

\* SlideMappingManager.get_layout_index.
get_layout_index(s, isBound, layouts, slide_type, fallback) ==
    LET config == get_slide_config(s, slide_type)
    IN  IF ~config.found \/ ~config.cfg.enabled THEN fallback
        ELSE IF isBound /\ config.cfg.layout_index >= Len(layouts) THEN fallback
        ELSE config.cfg.layout_index

\* get_layout_index's range test with `>` in place of `>=`.
get_layout_index_out_of_range_gt(s, isBound, layouts, slide_type) ==
    LET config == get_slide_config(s, slide_type)
    IN  /\ config.found /\ config.cfg.enabled
        /\ isBound /\ config.cfg.layout_index > Len(layouts)

\* get_layout_index reaches its range test and fails it: the call logs "Layout index
\* ... exceeds available layouts" and returns the fallback for that reason.
get_layout_index_out_of_range(s, isBound, layouts, slide_type) ==
    LET config == get_slide_config(s, slide_type)
    IN  /\ config.found /\ config.cfg.enabled
        /\ isBound /\ config.cfg.layout_index >= Len(layouts)

\* SlideMappingManager.is_slide_enabled.
is_slide_enabled(s, slide_type) ==
    LET config == get_slide_config(s, slide_type)
    IN  IF config.found THEN config.cfg.enabled ELSE TRUE

\* The list comprehension of get_slides_by_position.
EnabledOf(s) == SelectSeq(s, LAMBDA c : c.enabled)

\* InsertByPosition of a sort that is not stable: c goes before the elements of its
\* own position.
RECURSIVE InsertByPosition_unstable(_, _)
InsertByPosition_unstable(sorted, c) ==
    IF sorted = <<>> THEN <<c>>
    ELSE IF Head(sorted).position < c.position
         THEN <<Head(sorted)>> \o InsertByPosition_unstable(Tail(sorted), c)
         ELSE <<c>> \o sorted

\* One insertion of a stable sort by position: c goes after every element whose
\* position is not greater than its own.
RECURSIVE InsertByPosition(_, _)
InsertByPosition(sorted, c) ==
    IF sorted = <<>> THEN <<c>>
    ELSE IF Head(sorted).position <= c.position
         THEN <<Head(sorted)>> \o InsertByPosition(Tail(sorted), c)
         ELSE <<c>> \o sorted

\* sorted(enabled, key=lambda s: s.position): Python's sort is stable.
RECURSIVE SortedByPosition(_)
SortedByPosition(s) ==
    IF s = <<>> THEN <<>>
    ELSE InsertByPosition(SortedByPosition(SubSeq(s, 1, Len(s) - 1)), s[Len(s)])

\* SlideMappingManager.get_slides_by_position.
get_slides_by_position(s) == SortedByPosition(EnabledOf(s))

(***************************************************************************)
(* SlideMappingManager.validate.                                           *)
(***************************************************************************)
\* The keys of SlideMappingManager.SLIDE_TYPES.
SLIDE_TYPES ==
    {"title", "agenda", "introduction", "assessment_details", "methodology", "timeline",
     "attack_path", "observations_overview", "observation", "findings_overview", "finding",
     "recommendations", "next_steps", "final"}

\* slide.type.startswith("custom_"), for the types of the model.
startswith_custom(t) == t = "custom_x"

\* An element of the warnings or errors list: what it is about in place of its text.
Msg(kind, c) ==
    [kind |-> kind, type |-> c.type, mode |-> c.mode, layout_index |-> c.layout_index]

\* A warning that is about no entry.
PlainMsg(kind, t) == [kind |-> kind, type |-> t, mode |-> "", layout_index |-> 0]

\* One message of the kind for each element of the list, in its order.
MsgsOf(kind, s) == [i \in 1..Len(s) |-> Msg(kind, s[i])]

\* The duplicate-position check with the positions of every entry, disabled ones too.
DuplicatePositionWarnings_all(s) ==
    LET positions == [i \in 1..Len(s) |-> s[i].position]
    IN  IF Len(positions) # Cardinality({positions[i] : i \in 1..Len(positions)})
        THEN <<PlainMsg("duplicate_position", "")>> ELSE <<>>

\* validate: positions = [s.position for s in self.slides if s.enabled], one warning
\* if len(positions) != len(set(positions)).
DuplicatePositionWarnings(s) ==
    LET positions == [i \in 1..Len(EnabledOf(s)) |-> EnabledOf(s)[i].position]
    IN  IF Len(positions) # Cardinality({positions[i] : i \in 1..Len(positions)})
        THEN <<PlainMsg("duplicate_position", "")>> ELSE <<>>

\* validate: one warning for each entry whose type is neither a key of SLIDE_TYPES
\* nor prefixed with "custom_".
UnknownTypeWarnings(s) ==
    MsgsOf("unknown_type",
           SelectSeq(s, LAMBDA c : c.type \notin SLIDE_TYPES /\ ~startswith_custom(c.type)))

\* The invalid-mode check made on the enabled entries only.
InvalidModeErrors_enabled(s) ==
    MsgsOf("invalid_mode",
           SelectSeq(s, LAMBDA c : c.enabled /\ c.mode \notin {"static", "dynamic"}))

\* validate: one error for each entry whose mode is not in ("static", "dynamic").
InvalidModeErrors(s) ==
    MsgsOf("invalid_mode", SelectSeq(s, LAMBDA c : c.mode \notin {"static", "dynamic"}))

\* The layout check with `>` in place of `>=`.
LayoutIndexErrors_gt(s, isBound, layouts) ==
    IF isBound
    THEN MsgsOf("layout_index",
                SelectSeq(s, LAMBDA c : c.enabled /\ c.layout_index > Len(layouts)))
    ELSE <<>>

\* validate: with a presentation, one error for each enabled entry whose
\* layout_index >= len(slide_layouts).
LayoutIndexErrors(s, isBound, layouts) ==
    IF isBound
    THEN MsgsOf("layout_index",
                SelectSeq(s, LAMBDA c : c.enabled /\ c.layout_index >= Len(layouts)))
    ELSE <<>>

\* The required-type check that warns about an absent type only.
RequiredTypeWarning_absent(s, req_type) ==
    IF ~get_slide_config(s, req_type).found
    THEN <<PlainMsg("required_type", req_type)>> ELSE <<>>

\* validate: for "title" then "final", one warning if get_slide_config finds no
\* entry of the type or finds a disabled one.
RequiredTypeWarning(s, req_type) ==
    LET config == get_slide_config(s, req_type)
    IN  IF ~config.found \/ ~config.cfg.enabled
        THEN <<PlainMsg("required_type", req_type)>> ELSE <<>>

\* SlideMappingManager.validate: the pair (warnings, errors).
validate(s, isBound, layouts) ==
    [warnings |-> DuplicatePositionWarnings(s) \o UnknownTypeWarnings(s)
                    \o RequiredTypeWarning(s, "title") \o RequiredTypeWarning(s, "final"),
     errors   |-> InvalidModeErrors(s) \o LayoutIndexErrors(s, isBound, layouts)]

(***************************************************************************)
(* to_dict.                                                                *)
(***************************************************************************)
\* SlideConfig.to_dict without its "enabled" key.
SlideConfig_to_dict_noenabled(c) ==
    RawEntry(TRUE, RequiredKeys, c.type, c.layout_index, c.mode, FALSE, c.position)

\* SlideConfig.to_dict: an object that holds the five keys.
SlideConfig_to_dict(c) ==
    RawEntry(TRUE, Keys, c.type, c.layout_index, c.mode, c.enabled, c.position)

\* SlideMappingManager.to_dict: "version" is mapping_data.get("version", 1).
to_dict(md, s) ==
    VersionedDoc(Doc("dict", "list", [i \in 1..Len(s) |-> SlideConfig_to_dict(s[i])]),
                 IF md.hasVersion THEN md.version ELSE 1)

(***************************************************************************)
(* The mapping documents and templates the specifications start from.      *)
(***************************************************************************)
SeqsOver(S) == UNION {[1..n -> S] : n \in DocLengths}

\* Slide types of the documents of SpecMapping.
MappingTypes == {"title", "finding", "custom_x"}

\* Entries that parse: every key present, or "enabled" left out.
WellFormedEntries(T) ==
    {Entry(t, li, m, en, p) :
        t \in T, li \in LayoutIndexes, m \in Modes, en \in BOOLEAN, p \in Positions}
    \cup {RawEntry(TRUE, RequiredKeys, t, 0, "dynamic", FALSE, p) : t \in T, p \in Positions}

\* Entries that do not parse: a JSON value that is not an object, and an object that
\* lacks one of the required keys.
MalformedEntries ==
    {RawEntry(FALSE, {}, "title", 0, "dynamic", TRUE, 1)}
    \cup {RawEntry(TRUE, Keys \ {k}, "title", 0, "dynamic", TRUE, 1) : k \in RequiredKeys}

\* Lists of three entries that differ in type, enabled flag and position only: a
\* disabled entry between two enabled ones, three entries of one position.
OrderingEntries ==
    {Entry(t, 0, "dynamic", en, p) : t \in {"title", "custom_x"}, en \in BOOLEAN, p \in Positions}

\* Lists of up to three entries of the types validate() requires and of a type it
\* does not know: a required type absent, disabled, enabled, or both in turn.
RequiredTypeEntries ==
    {Entry(t, 0, "dynamic", en, 1) : t \in {"title", "final", "bogus"}, en \in BOOLEAN}

\* Values of a document's "version" key: the one to_dict() falls back to and another.
Versions == {1, 2}

MappingDocs ==
    {Doc("None", "missing", <<>>), Doc("nondict", "missing", <<>>),
     Doc("dict", "missing", <<>>), Doc("dict", "noniterable", <<>>)}
    \cup {Doc("dict", "list", s) : s \in SeqsOver(WellFormedEntries(MappingTypes) \cup MalformedEntries)}
    \cup {Doc("dict", "list", s) : s \in [1..3 -> OrderingEntries]}
    \cup {Doc("dict", "list", s) : s \in UNION {[1..n -> RequiredTypeEntries] : n \in 1..3}}
    \cup {VersionedDoc(Doc("dict", "list", s), v) : s \in [1..2 -> OrderingEntries], v \in Versions}

\* Slide types get_slide_config and is_slide_enabled are asked about.
QueryTypes == {"title", "custom_x", "final"}

\* A template of n layouts without placeholders.
BlankTemplate(n) == [i \in 1..n |-> <<>>]

NoResult == [op |-> "none"]

\* No shape is being worked on.
NoCall == [op |-> "none"]
NoTextCall ==
    /\ text_shape = [has_text_frame |-> FALSE, paragraphs |-> <<>>]
    /\ call = NoCall

JobIdle ==
    /\ job = "none"
    /\ base_context = [findings |-> 0, observations |-> 0]
    /\ pc = "idle"
    /\ slides_config = <<>>
    /\ pos = 0
    /\ deck = <<>>
    /\ exc = "none"
    /\ out = <<>>

(***************************************************************************)
(* SpecMapping: a manager built by SlideMappingManager.__init__ from a     *)
(* persisted document, with or without a presentation, then queried.       *)
(***************************************************************************)
InitMapping ==
    /\ slide_mapping \in MappingDocs
    /\ mapping_data = Construct(slide_mapping).mapping_data
    /\ slides = Construct(slide_mapping).slides
    /\ bound \in BOOLEAN
    /\ slide_layouts \in IF bound THEN {BlankTemplate(n) : n \in 1..MaxLayouts} ELSE {<<>>}
    /\ result = NoResult
    /\ JobIdle
    /\ NoTextCall

GetLayoutIndexCall(slide_type, fallback) ==
    /\ pc = "idle"
    /\ result' = [op |-> "get_layout_index", slide_type |-> slide_type, fallback |-> fallback,
                  value |-> get_layout_index(slides, bound, slide_layouts, slide_type, fallback)]
    /\ UNCHANGED <<mgr_vars, txt_vars, job_vars>>

GetSlidesByPositionCall ==
    /\ pc = "idle"
    /\ result' = [op |-> "get_slides_by_position", value |-> get_slides_by_position(slides)]
    /\ UNCHANGED <<mgr_vars, txt_vars, job_vars>>

GetSlideConfigCall(slide_type) ==
    /\ pc = "idle"
    /\ result' = [op |-> "get_slide_config", slide_type |-> slide_type,
                  value |-> get_slide_config(slides, slide_type)]
    /\ UNCHANGED <<mgr_vars, txt_vars, job_vars>>

IsSlideEnabledCall(slide_type) ==
    /\ pc = "idle"
    /\ result' = [op |-> "is_slide_enabled", slide_type |-> slide_type,
                  value |-> is_slide_enabled(slides, slide_type)]
    /\ UNCHANGED <<mgr_vars, txt_vars, job_vars>>

\* validate() that drops the disabled entries from self.slides as it goes.
ValidateCall_mutating ==
    /\ pc = "idle"
    /\ result' = [op |-> "validate", value |-> validate(slides, bound, slide_layouts)]
    /\ slides' = EnabledOf(slides)
    /\ UNCHANGED <<slide_mapping, mapping_data, bound, slide_layouts, job_vars, txt_vars>>

\* validate(): it assigns to its local lists only.
ValidateCall ==
    /\ pc = "idle"
    /\ result' = [op |-> "validate", value |-> validate(slides, bound, slide_layouts)]
    /\ UNCHANGED <<mgr_vars, txt_vars, job_vars>>

\* to_dict(), and a second manager built from the dictionary it returns: the
\* dictionary, the second manager's slides, and the second manager's to_dict().
ToDictCall ==
    /\ pc = "idle"
    /\ LET d      == to_dict(mapping_data, slides)
           second == Construct(d)
       IN  result' = [op |-> "to_dict", value |-> d, slides |-> second.slides,
                      again |-> to_dict(second.mapping_data, second.slides)]
    /\ UNCHANGED <<mgr_vars, txt_vars, job_vars>>

NextMapping ==
    \/ \E t \in MappingTypes, fb \in 0..MaxFallback : GetLayoutIndexCall(t, fb)
    \/ GetSlidesByPositionCall

SpecMapping == InitMapping /\ [][NextMapping]_vars

(***************************************************************************)
(* SpecQueries: the same managers, asked for an entry by type, validated   *)
(* and exported with to_dict().                                            *)
(***************************************************************************)
NextQueries ==
    \/ \E t \in QueryTypes : GetSlideConfigCall(t)
    \/ \E t \in QueryTypes : IsSlideEnabledCall(t)
    \/ ValidateCall
    \/ ToDictCall

SpecQueries == InitMapping /\ [][NextQueries]_vars

(***************************************************************************)
(* Slides, shapes and the builders of the export jobs.                     *)
(***************************************************************************)
\* The context a slide is rendered with: none, the global one of get_slide_context,
\* or the one built for the k-th finding or observation.
NoCtx == [scope |-> "none", item |-> 0]
GlobalCtx == [scope |-> "global", item |-> 0]
ItemCtx(kind, k) == [scope |-> kind, item |-> k]

\* slides.add_slide clones the layout's placeholders onto the new slide, except the
\* date, footer and slide-number ones.
Cloneable(name) == name \notin {"Footer", "Slide Number", "Date"}

\* A shape of a slide: the name and the position (from 0) of the layout placeholder
\* it was cloned from, who cloned it, the context it was rendered with, and what its
\* text holds ("layout": nothing written yet).
Shape(name, src, by) ==
    [name |-> name, src |-> src, by |-> by, ctx |-> NoCtx, text |-> "layout"]

RECURSIVE ClonedFrom(_, _)
ClonedFrom(layout, j) ==
    IF j > Len(layout) THEN <<>>
    ELSE (IF Cloneable(layout[j]) THEN <<Shape(layout[j], j - 1, "add_slide")>> ELSE <<>>)
         \o ClonedFrom(layout, j + 1)

\* presentation.slides.add_slide(presentation.slide_layouts[layout_index]), for an
\* index in range: the new slide.
add_slide(layouts, layout_index) ==
    [layout |-> layout_index,
     shapes |-> ClonedFrom(layouts[layout_index + 1], 1),
     context |-> NoCtx,
     notes |-> 0]

\* render_jinja2_in_shape(shape, jinja_env, context, slide).
render_jinja2_in_shape(shape, ctx) == [shape EXCEPT !.ctx = ctx]

\* `for shape in slide.shapes: render_jinja2_in_shape(shape, jinja_env, context, slide)`.
RenderShapes(slide, ctx) ==
    [slide EXCEPT !.shapes = [j \in 1..Len(slide.shapes) |->
                                 render_jinja2_in_shape(slide.shapes[j], ctx)],
                  !.context = ctx]

\* What a builder leaves: the deck, and the exception that escaped it, if any.
Built(d, e) == [deck |-> d, exc |-> e]

\* create_static_slide with shapes left as add_slide made them.
create_static_slide_norender(d, layouts, layout_index) ==
    IF layout_index >= Len(layouts) THEN Built(d, "IndexError")
    ELSE Built(Append(d, add_slide(layouts, layout_index)), "none")

\* create_static_slide: slide_layouts[layout_index] raises IndexError out of range.
create_static_slide(d, layouts, layout_index) ==
    IF layout_index >= Len(layouts) THEN Built(d, "IndexError")
    ELSE Built(Append(d, RenderShapes(add_slide(layouts, layout_index), GlobalCtx)), "none")

\* get_title_shape: the position of the slide's title shape, 0 if it has none.
get_title_shape(slide) ==
    LET t == {j \in 1..Len(slide.shapes) : slide.shapes[j].name = "Title"}
    IN  IF t = {} THEN 0 ELSE CHOOSE j \in t : \A k \in t : j <= k

\* get_body_shape: the position of a text shape other than the title, 0 if none.
get_body_shape(slide) ==
    LET b == {j \in 1..Len(slide.shapes) : j # get_title_shape(slide)}
    IN  IF b = {} THEN 0 ELSE CHOOSE j \in b : \A k \in b : j <= k

\* set_text_preserving_format and the writes to a body text frame: the shape at
\* position j (if any) holds text written by the builder.
WriteText(slide, j) ==
    IF j = 0 THEN slide ELSE [slide EXCEPT !.shapes[j].text = "built"]

\* create_title_slide that takes the dynamic path for the mode "dynamic" only.
create_title_slide_dynamic_only(d, layouts, config) ==
    IF config.mode # "dynamic" THEN create_static_slide(d, layouts, config.layout_index)
    ELSE IF config.layout_index >= Len(layouts) THEN Built(d, "IndexError")
    ELSE LET slide == add_slide(layouts, config.layout_index)
         IN  Built(Append(d, WriteText(WriteText(slide, get_title_shape(slide)),
                                       get_body_shape(slide))), "none")


\* ProjectSlidesMixin.create_title_slide.
create_title_slide(d, layouts, config) ==
    IF config.mode = "static" THEN create_static_slide(d, layouts, config.layout_index)
    ELSE IF config.layout_index >= Len(layouts) THEN Built(d, "IndexError")
    ELSE LET slide == add_slide(layouts, config.layout_index)
         IN  Built(Append(d, WriteText(WriteText(slide, get_title_shape(slide)),
                                       get_body_shape(slide))), "none")

\* The other builders of a single slide (create_methodology_slide and the like): the
\* static path, or one slide on the configured layout with its title written. What
\* each of them writes to the body is left out.
create_titled_slide(d, layouts, config) ==
    IF config.mode = "static" THEN create_static_slide(d, layouts, config.layout_index)
    ELSE IF config.layout_index >= Len(layouts) THEN Built(d, "IndexError")
    ELSE LET slide == add_slide(layouts, config.layout_index)
         IN  Built(Append(d, WriteText(slide, get_title_shape(slide))), "none")

\* The loop of create_finding_slides and create_observation_slides from item k on.
\* The call render_jinja2_in_shape(shape, self.jinja_env, context) lacks the required
\* argument `slide`: it raises TypeError for the first shape of the new slide, after
\* the slide was added. A finding slide that gets through has its notes written.
RECURSIVE ItemSlides(_, _, _, _, _, _)
ItemSlides(kind, d, layouts, config, k, n) ==
    IF k > n THEN Built(d, "none")
    ELSE IF config.layout_index >= Len(layouts) THEN Built(d, "IndexError")
    ELSE LET slide == [add_slide(layouts, config.layout_index)
                          EXCEPT !.context = ItemCtx(kind, k)]
         IN  IF slide.shapes # <<>> THEN Built(Append(d, slide), "TypeError")
             ELSE ItemSlides(kind,
                             Append(d, [slide EXCEPT !.notes = IF kind = "finding" THEN k ELSE 0]),
                             layouts, config, k + 1, n)

\* ExportReportPptx.create_finding_slides.
create_finding_slides(d, layouts, config, ctx) ==
    IF config.mode = "static" THEN Built(d, "none")
    ELSE ItemSlides("finding", d, layouts, config, 1, ctx.findings)

\* ExportReportPptx.create_observation_slides.
create_observation_slides(d, layouts, config, ctx) ==
    IF config.mode = "static" THEN Built(d, "none")
    ELSE ItemSlides("observation", d, layouts, config, 1, ctx.observations)

\* The shapes without the one at position j.
RemoveAt(shapes, j) == SubSeq(shapes, 1, j - 1) \o SubSeq(shapes, j + 1, Len(shapes))

\* shapes.add_table(...): the graphic frame that holds the table.
add_table == [Shape("Table", 0, "add_table") EXCEPT !.text = "table"]

\* The two overview builders: the static path, or one slide on the configured
\* layout with its title written; a slide without a body shape is left at that;
\* with items the body shape is removed and a table added, without items
\* write_bullet adds the bullet to the body's text frame.
OverviewSlide(d, layouts, config, n, bullet) ==
    IF config.mode = "static" THEN create_static_slide(d, layouts, config.layout_index)
    ELSE IF config.layout_index >= Len(layouts) THEN Built(d, "IndexError")
    ELSE LET slide == add_slide(layouts, config.layout_index)
             body_shape == get_body_shape(slide)
             titled == WriteText(slide, get_title_shape(slide))
         IN  IF body_shape = 0 THEN Built(Append(d, titled), "none")
             ELSE IF n > 0
             THEN Built(Append(d, [titled EXCEPT !.shapes =
                                      Append(RemoveAt(@, body_shape), add_table)]), "none")
             ELSE Built(Append(d, [titled EXCEPT !.shapes[body_shape].text = bullet]), "none")

\* ExportReportPptx.create_findings_overview_slide.
create_findings_overview_slide(d, layouts, config, ctx) ==
    OverviewSlide(d, layouts, config, ctx.findings, "No findings")

\* ExportReportPptx.create_observations_overview_slide.
create_observations_overview_slide(d, layouts, config, ctx) ==
    OverviewSlide(d, layouts, config, ctx.observations, "No observations")

\* The slide types with a branch in both run() methods, and those only
\* ExportReportPptx.run() has a branch for.
ProjectSlideTypes ==
    {"title", "agenda", "introduction", "assessment_details", "methodology", "timeline",
     "attack_path"}
ReportSlideTypes ==
    {"observations_overview", "observation", "findings_overview", "finding",
     "recommendations", "next_steps", "final"}

\* One iteration of the loop of ExportReportPptx.run / ExportProjectPptx.run.
Dispatch(j, d, layouts, config, ctx) ==
    IF ~config.enabled THEN Built(d, "none")
    ELSE IF config.type = "title" THEN create_title_slide(d, layouts, config)
    ELSE IF config.type \in ProjectSlideTypes THEN create_titled_slide(d, layouts, config)
    ELSE IF j = "report" /\ config.type = "observation"
         THEN create_observation_slides(d, layouts, config, ctx)
    ELSE IF j = "report" /\ config.type = "finding"
         THEN create_finding_slides(d, layouts, config, ctx)
    ELSE IF j = "report" /\ config.type = "observations_overview"
         THEN create_observations_overview_slide(d, layouts, config, ctx)
    ELSE IF j = "report" /\ config.type = "findings_overview"
         THEN create_findings_overview_slide(d, layouts, config, ctx)
    ELSE IF j = "report" /\ config.type \in ReportSlideTypes
         THEN create_titled_slide(d, layouts, config)
    ELSE IF config.mode = "static" THEN create_static_slide(d, layouts, config.layout_index)
    ELSE Built(d, "none")

(***************************************************************************)
(* The footer post-pass.                                                   *)
(***************************************************************************)
\* `sub in place.name`, for the names of the model.
NameContains(name, sub) == name = sub

\* The loop over slide_layout.placeholders: the position (from 0) of the last
\* placeholder whose name contains sub, -1 if there is none.
PlaceholderIdx(layout, sub) ==
    LET m == {j \in 1..Len(layout) : NameContains(layout[j], sub)}
    IN  IF m = {} THEN -1 ELSE (CHOOSE j \in m : \A k \in m : k <= j) - 1

\* The value of `idx` at `if idx > 0`: the inner loop rebinds the outer loop's idx,
\* so it is the position of the layout's last placeholder, and the slide's index only
\* when the layout has no placeholder.
IdxAfterInnerLoop(slide_idx, layout) ==
    IF layout = <<>> THEN slide_idx ELSE Len(layout) - 1

\* clone_placeholder followed by the write to the clone: the slide with the new shape.
clone_placeholder(slide, layout, placeholder_idx, text) ==
    [slide EXCEPT !.shapes =
        Append(@, [Shape(layout[placeholder_idx + 1], placeholder_idx, "process_footers")
                      EXCEPT !.text = text])]

CloneIfFound(slide, layout, sub, text) ==
    IF PlaceholderIdx(layout, sub) > 0
    THEN clone_placeholder(slide, layout, PlaceholderIdx(layout, sub), text)
    ELSE slide

\* The body of the outer loop of process_footers for the slide at slide_idx (from 0).
FooterPass(slide_idx, slide, layouts) ==
    LET layout == layouts[slide.layout + 1]
    IN  IF IdxAfterInnerLoop(slide_idx, layout) > 0
        THEN CloneIfFound(
                 CloneIfFound(
                     CloneIfFound(slide, layout, "Footer", "footer"),
                     layout, "Slide Number", "slide_number"),
                 layout, "Date", "date")
        ELSE slide

\* ExportBasePptx.process_footers.
process_footers(d, layouts) == [i \in 1..Len(d) |-> FooterPass(i - 1, d[i], layouts)]

(***************************************************************************)
(* SpecExport: one export job.  The constructor has bound the template and *)
(* built the manager from the template's slide_mapping; run() then reads   *)
(* the ordered entries, builds their slides one entry at a time, runs the  *)
(* footer post-pass and saves the deck.                                    *)
(***************************************************************************)
\* The entries of the jobs' documents: every enabled entry, and for each type and
\* position one disabled entry.
ExportEntries ==
    {Entry(t, li, m, TRUE, p) : t \in Types, li \in LayoutIndexes, m \in Modes, p \in Positions}
    \cup {Entry(t, 0, "dynamic", FALSE, p) : t \in Types, p \in Positions}

\* The documents of the jobs: lists of entries, and no document, for which the
\* manager takes the default mapping.
ExportDocs ==
    {Doc("dict", "list", s) : s \in SeqsOver(ExportEntries)} \cup {Doc("None", "missing", <<>>)}

\* SLD_LAYOUT_FINAL, the layout index of the default mapping's last entry.
SLD_LAYOUT_FINAL == 12

\* A template with the layouts the default mapping names: a title layout, the
\* given layout for the content, and layouts without placeholders up to
\* SLD_LAYOUT_FINAL.
FullTemplate(content) ==
    [i \in 1..(SLD_LAYOUT_FINAL + 1) |->
        IF i = 1 THEN <<"Title", "Body">> ELSE IF i = 2 THEN content ELSE <<>>]

\* The templates of the jobs: one with a layout without placeholders and a layout
\* with a title, a body and a footer; one whose only layout starts with its footer;
\* two full ones, the content layout with a title, a body and a footer or with a
\* title and a footer only.
ExportTemplates ==
    { << <<>>, <<"Title", "Body", "Footer">> >>,
      << <<"Footer", "Title">> >>,
      FullTemplate(<<"Title", "Body", "Footer">>),
      FullTemplate(<<"Title", "Footer">>) }

\* The data of a job: a report holds at most MaxItems findings and observations, a
\* project none.
Contexts(j) ==
    IF j = "report"
    THEN {[findings |-> f, observations |-> o] :
            f \in 0..MaxItems, o \in 0..MaxItems} \cap
         {c \in [findings : 0..MaxItems, observations : 0..MaxItems] :
            c.findings + c.observations <= MaxItems}
    ELSE {[findings |-> 0, observations |-> 0]}

InitExport ==
    /\ slide_mapping \in ExportDocs
    /\ mapping_data = Construct(slide_mapping).mapping_data
    /\ slides = Construct(slide_mapping).slides
    /\ bound = TRUE
    /\ slide_layouts \in ExportTemplates
    /\ result = NoResult
    /\ job \in {"report", "project"}
    /\ base_context \in Contexts(job)
    /\ pc = "run"
    /\ slides_config = <<>>
    /\ pos = 0
    /\ deck = <<>>
    /\ exc = "none"
    /\ out = <<>>
    /\ NoTextCall

\* AfterEntry that leaves the loop one entry early.
AfterEntry_early(done, list) == IF done < Len(list) - 1 THEN "loop" ELSE "footers"


\* Where run() is once `done` entries of the list are processed: in the loop while
\* entries remain, at self.process_footers() after the last one.
AfterEntry(done, list) == IF done < Len(list) THEN "loop" ELSE "footers"

\* run(): slides_config = self.slide_mapping_manager.get_slides_by_position().
RunStart ==
    /\ pc = "run"
    /\ slides_config' = get_slides_by_position(slides)
    /\ pc' = AfterEntry(0, slides_config')
    /\ UNCHANGED <<mgr_vars, txt_vars, result, job, base_context, pos, deck, exc, out>>

\* run(): one iteration of `for slide_config in slides_config`.
ProcessEntry ==
    /\ pc = "loop"
    /\ pos < Len(slides_config)
    /\ LET b == Dispatch(job, deck, slide_layouts, slides_config[pos + 1], base_context)
       IN  /\ deck' = b.deck
           /\ exc' = b.exc
           /\ IF b.exc = "none"
              THEN pc' = AfterEntry(pos + 1, slides_config) /\ pos' = pos + 1
              ELSE pc' = "raised" /\ pos' = pos
    /\ UNCHANGED <<mgr_vars, txt_vars, result, job, base_context, slides_config, out>>

\* run(): self.process_footers(), once the loop is over.
ProcessFooters ==
    /\ pc = "footers"
    /\ deck' = process_footers(deck, slide_layouts)
    /\ pc' = "save"
    /\ UNCHANGED <<mgr_vars, txt_vars, result, job, base_context, slides_config, pos, exc, out>>

\* ExportBasePptx.run(): the deck is saved and returned.
Save ==
    /\ pc = "save"
    /\ out' = deck
    /\ pc' = "done"
    /\ UNCHANGED <<mgr_vars, txt_vars, result, job, base_context, slides_config, pos, deck, exc>>

NextExport == RunStart \/ ProcessEntry \/ ProcessFooters \/ Save

SpecExport == InitExport /\ [][NextExport]_vars

(***************************************************************************)
(* SpecFooters: the footer post-pass alone, over a deck that holds one     *)
(* slide, as add_slide makes it, for each layout of the template.          *)
(***************************************************************************)
\* Most placeholders a layout has.
MaxPlaceholders == 2
\* Numbers of slides of the decks.
DeckLengths == {1, 2}

PlaceholderNames == {"Title", "Footer", "Slide Number", "Date"}

Layouts == UNION {[1..n -> PlaceholderNames] : n \in 0..MaxPlaceholders}

InitFooters ==
    /\ slide_mapping = Doc("None", "missing", <<>>)
    /\ mapping_data = Construct(slide_mapping).mapping_data
    /\ slides = Construct(slide_mapping).slides
    /\ bound = TRUE
    /\ slide_layouts \in UNION {[1..n -> Layouts] : n \in DeckLengths}
    /\ result = NoResult
    /\ job = "report"
    /\ base_context = [findings |-> 0, observations |-> 0]
    /\ pc = "footers"
    /\ slides_config = <<>>
    /\ pos = 0
    /\ deck = [i \in 1..Len(slide_layouts) |-> add_slide(slide_layouts, i - 1)]
    /\ exc = "none"
    /\ out = <<>>
    /\ NoTextCall

NextFooters == ProcessFooters \/ Save

SpecFooters == InitFooters /\ [][NextFooters]_vars

(***************************************************************************)
(* Text frames: runs, paragraphs and the functions of base/pptx.py that    *)
(* rewrite them (set_text_preserving_format, render_jinja2_in_textframe).  *)
(***************************************************************************)
\* Most runs a paragraph holds when a function is called on it.
MaxRuns == 3

\* font.color: its type (0 for None, 1 for RGB, 2 for THEME) and its value.
NoColor == [type |-> 0, value |-> ""]
RGB(v) == [type |-> 1, value |-> v]
Theme(v) == [type |-> 2, value |-> v]

\* run.font: the fields the functions read and write; "" , 0 and "None" stand for None.
Font(name, size, bold, italic, underline, color) ==
    [name |-> name, size |-> size, bold |-> bold, italic |-> italic,
     underline |-> underline, color |-> color]

\* The font of a run made by add_run() or by a paragraph's text setter.
DefaultFont == Font("", 0, "None", "None", "None", NoColor)

FontA == Font("Arial", 24, "True", "False", "None", RGB("FF0000"))
FontB == Font("Calibri", 12, "None", "True", "True", Theme("ACCENT_1"))
Fonts == {FontA, FontB, DefaultFont}

\* The font of the runs after the first: another one than the first run's.
OtherFont(first) == IF first = FontA THEN FontB ELSE FontA

\* A run: its text, a sequence of pieces ("{" and "}" are single characters), and
\* its font.
Run(text, font) == [text |-> text, font |-> font]

\* A paragraph: which paragraph object it is, and its runs.
Paragraph(id, runs) == [id |-> id, runs |-> runs]

\* The texts of the runs of the inputs: literal text, delimiters whole or split, a
\* name the context defines ("title") and one it does not ("missing"), and an
\* expression in one run.
RunTexts ==
    {<<"Finding: ">>, <<"{", "{">>, <<"}", "}">>, <<"{">>, <<"title">>, <<"missing">>,
     <<"{", "{", "title", "}", "}">>}

\* The expressions a template can hold: names, of which the context has a value
\* for some, and a division by zero.
Names == {"title", "missing", "body", "1/0"}
ContextKeys == {"title", "body"}
ContextValue(name) == IF name = "title" THEN <<"Example">> ELSE <<"<p>Rich</p>">>

\* "".join(r.text for r in p.runs).
RECURSIVE JoinRuns(_)
JoinRuns(runs) == IF runs = <<>> THEN <<>> ELSE Head(runs).text \o JoinRuns(Tail(runs))

\* The test that looks for the closing delimiter only.
HasPair_closing(text, c) == \E i \in 1..(Len(text) - 1) : text[i] = "}" /\ text[i + 1] = "}"


\* `"{{" in text` and `"}}" in text`: the character twice in a row.
HasPair(text, c) == \E i \in 1..(Len(text) - 1) : text[i] = c /\ text[i + 1] = c

\* The index of the first "}}" at or after i, 0 if there is none.
CloseAt(text, i) ==
    LET m == {k \in i..(Len(text) - 1) : text[k] = "}" /\ text[k + 1] = "}"}
    IN  IF m = {} THEN 0 ELSE CHOOSE k \in m : \A l \in m : k <= l

\* jinja_env.from_string from piece i on: the template's parts (data, or the name of
\* an expression), or TemplateSyntaxError for an expression that is not closed or
\* is not a single name.
RECURSIVE from_string(_, _)
from_string(text, i) ==
    IF i > Len(text) THEN [exc |-> "none", parts |-> <<>>]
    ELSE IF i < Len(text) /\ text[i] = "{" /\ text[i + 1] = "{"
    THEN LET c == CloseAt(text, i + 2)
         IN  IF c = 0 \/ c # i + 3 \/ text[i + 2] \notin Names
             THEN [exc |-> "TemplateSyntaxError", parts |-> <<>>]
             ELSE LET rest == from_string(text, c + 2)
                  IN  IF rest.exc # "none" THEN rest
                      ELSE [exc |-> "none",
                            parts |-> <<[name |-> TRUE, piece |-> text[i + 2]]>> \o rest.parts]
    ELSE LET rest == from_string(text, i + 1)
         IN  IF rest.exc # "none" THEN rest
             ELSE [exc |-> "none",
                   parts |-> <<[name |-> FALSE, piece |-> text[i]]>> \o rest.parts]

\* template.render(context): a name the context lacks raises UndefinedError in an
\* environment with strict undefined, and renders as the empty string otherwise;
\* 1/0 raises ZeroDivisionError.
RECURSIVE template_render(_, _)
template_render(parts, strict) ==
    IF parts = <<>> THEN [exc |-> "none", text |-> <<>>]
    ELSE LET part == Head(parts)
             rest == template_render(Tail(parts), strict)
         IN  IF part.name /\ part.piece = "1/0"
             THEN [exc |-> "ZeroDivisionError", text |-> <<>>]
             ELSE IF part.name /\ part.piece \notin ContextKeys /\ strict
             THEN [exc |-> "UndefinedError", text |-> <<>>]
             ELSE IF rest.exc # "none" THEN rest
             ELSE [exc |-> "none",
                   text |-> (IF ~part.name THEN <<part.piece>>
                             ELSE IF part.piece \in ContextKeys THEN ContextValue(part.piece)
                             ELSE <<>>) \o rest.text]

\* bool(BeautifulSoup(rendered_text, "html.parser").find()): the text holds a tag.
is_html(text) == \E i \in 1..Len(text) : text[i] = "<p>Rich</p>"

\* The handlers with `except jinja2.exceptions.UndefinedError` alone.
Caught_undefined_only(e) == e = "UndefinedError"

\* The exceptions the `except` clauses of render_jinja2_in_textframe name:
\* jinja2.exceptions.UndefinedError, then Exception.
Caught(e) ==
    e = "UndefinedError" \/ e \in {"TemplateSyntaxError", "ZeroDivisionError", "ConverterError"}

\* The new run with the first run's name, size, bold, italic and underline put
\* back but not its color.
ReapplyFont_nocolor(font_props) ==
    [DefaultFont EXCEPT !.name = font_props.name, !.size = font_props.size,
                        !.bold = font_props.bold, !.italic = font_props.italic,
                        !.underline = font_props.underline]

\* The font of the new run once font_props is put back on it: the five plain
\* fields, and the color if the captured one is RGB or THEME.
ReapplyFont(font_props) ==
    [DefaultFont EXCEPT !.name = font_props.name, !.size = font_props.size,
                        !.bold = font_props.bold, !.italic = font_props.italic,
                        !.underline = font_props.underline,
                        !.color = IF font_props.color.type = 1 THEN RGB(font_props.color.value)
                                  ELSE IF font_props.color.type = 2
                                       THEN Theme(font_props.color.value)
                                  ELSE NoColor]

\* The font of the runs HtmlToPptxWithEvidence writes.
ConverterFont == Font("converter", 0, "None", "None", "None", NoColor)

\* The body of the loop of render_jinja2_in_textframe for one paragraph: the
\* paragraph as it is left, whether it was deleted, the paragraphs the converter
\* added to the shape, and the exception raised inside the try block, if any.
\* n is the number of paragraphs of the frame, for the ids of the added ones.
RenderParagraph(p, n, strict, converter_ok) ==
    LET original_text == JoinRuns(p.runs)
        untouched(e)  == [p |-> p, deleted |-> FALSE, added |-> <<>>, exc |-> e]
    IN  IF ~(original_text # <<>> /\ HasPair(original_text, "{") /\ HasPair(original_text, "}"))
        THEN untouched("none")
        ELSE LET template == from_string(original_text, 1)
             IN  IF template.exc # "none" THEN untouched(template.exc)
                 ELSE LET rendered == template_render(template.parts, strict)
                      IN  IF rendered.exc # "none" THEN untouched(rendered.exc)
                          ELSE IF is_html(rendered.text)
                          THEN IF converter_ok
                               THEN [p |-> [p EXCEPT !.runs = <<>>], deleted |-> TRUE,
                                     added |-> <<Paragraph(n + p.id,
                                                           <<Run(rendered.text, ConverterFont)>>)>>,
                                     exc |-> "none"]
                               ELSE [p |-> [p EXCEPT !.runs = <<>>], deleted |-> FALSE,
                                     added |-> <<>>, exc |-> "ConverterError"]
                          ELSE [p |-> [p EXCEPT !.runs =
                                          <<Run(rendered.text, ReapplyFont(p.runs[1].font))>>],
                                deleted |-> FALSE, added |-> <<>>, exc |-> "none"]

\* `for p in text_frame.paragraphs` from the k-th paragraph on: the paragraphs that
\* are left of these, the ones the converter added, and the exception that left
\* the loop, if one did. An exception the handlers catch does not end the loop.
RECURSIVE RenderParagraphs(_, _, _, _)
RenderParagraphs(paragraphs, k, strict, converter_ok) ==
    IF k > Len(paragraphs) THEN [paragraphs |-> <<>>, added |-> <<>>, exc |-> "none"]
    ELSE LET r == RenderParagraph(paragraphs[k], Len(paragraphs), strict, converter_ok)
             here == IF r.deleted THEN <<>> ELSE <<r.p>>
         IN  IF r.exc # "none" /\ ~Caught(r.exc)
             THEN [paragraphs |-> here \o SubSeq(paragraphs, k + 1, Len(paragraphs)),
                   added |-> r.added, exc |-> r.exc]
             ELSE LET rest == RenderParagraphs(paragraphs, k + 1, strict, converter_ok)
                  IN  [paragraphs |-> here \o rest.paragraphs,
                       added |-> r.added \o rest.added, exc |-> rest.exc]

\* render_jinja2_in_textframe: the paragraphs of the frame once it returns, and the
\* exception that left it, if one did.
render_jinja2_in_textframe(paragraphs, strict, converter_ok) ==
    LET r == RenderParagraphs(paragraphs, 1, strict, converter_ok)
    IN  [paragraphs |-> r.paragraphs \o r.added, exc |-> r.exc]

\* set_text_preserving_format that leaves the paragraphs after the first in place.
set_text_preserving_format_keeps(sh, text) ==
    IF ~sh.has_text_frame \/ sh.paragraphs = <<>> THEN sh
    ELSE LET first_para == sh.paragraphs[1]
         IN  [sh EXCEPT !.paragraphs[1].runs =
                 IF first_para.runs # <<>>
                 THEN <<Run(text, first_para.runs[1].font)>>
                 ELSE IF text = <<>> THEN <<>> ELSE <<Run(text, DefaultFont)>>]

\* set_text_preserving_format(shape, text): nothing for a shape without a text frame;
\* the first paragraph keeps its first run, with the new text, or has its text set
\* if it has no run; the other paragraphs are deleted; a frame without a paragraph
\* gets the text through text_frame.text.
set_text_preserving_format(sh, text) ==
    IF ~sh.has_text_frame THEN sh
    ELSE IF sh.paragraphs # <<>>
    THEN LET first_para == sh.paragraphs[1]
             runs == IF first_para.runs # <<>>
                     THEN <<Run(text, first_para.runs[1].font)>>
                     ELSE IF text = <<>> THEN <<>> ELSE <<Run(text, DefaultFont)>>
         IN  [sh EXCEPT !.paragraphs = <<[first_para EXCEPT !.runs = runs]>>]
    ELSE [sh EXCEPT !.paragraphs =
             <<Paragraph(1, IF text = <<>> THEN <<>> ELSE <<Run(text, DefaultFont)>>)>>]

(***************************************************************************)
(* Text inherited from the layout: copy_text_from_layout_preserving_format *)
(* and the text-frame branch of render_jinja2_in_shape.                    *)
(***************************************************************************)
\* A paragraph with its properties: pPr's alignment ("None" for none) and level.
FormattedParagraph(id, alignment, level, runs) ==
    [id |-> id, runs |-> runs, alignment |-> alignment, level |-> level]

\* A slide shape or a layout placeholder: placeholder_format.idx is read for
\* placeholders only.
TextShape(is_placeholder, idx, has_text_frame, paragraphs) ==
    [is_placeholder |-> is_placeholder, idx |-> idx,
     has_text_frame |-> has_text_frame, paragraphs |-> paragraphs]

\* text_frame.clear(): every paragraph but the first is removed, and the first
\* loses its runs and keeps its properties.
text_frame_clear(paragraphs) ==
    IF paragraphs = <<>> THEN <<>> ELSE <<[paragraphs[1] EXCEPT !.runs = <<>>]>>

\* text_frame.add_paragraph(): a new paragraph object without properties.
add_paragraph(id) == FormattedParagraph(id, "None", 0, <<>>)

\* The font of a run of the destination once the source run's font is copied to
\* it: the five plain fields, and the color if the source's is RGB or THEME.
CopyFont(src_font) ==
    [DefaultFont EXCEPT !.name = src_font.name, !.size = src_font.size,
                        !.bold = src_font.bold, !.italic = src_font.italic,
                        !.underline = src_font.underline,
                        !.color = IF src_font.color.type = 1 THEN RGB(src_font.color.value)
                                  ELSE IF src_font.color.type = 2
                                       THEN Theme(src_font.color.value)
                                  ELSE NoColor]

\* The runs add_run() appends to a destination paragraph for the runs of a source
\* paragraph.
CopyRuns(src_runs) ==
    [j \in 1..Len(src_runs) |-> Run(src_runs[j].text, CopyFont(src_runs[j].font))]

\* copy_text_from_layout_preserving_format that adds a paragraph for the first
\* source paragraph too, after the one clear() leaves.
copy_text_from_layout_preserving_format_appends(dest_shape, source_ph) ==
    IF ~source_ph.has_text_frame \/ ~dest_shape.has_text_frame THEN dest_shape
    ELSE LET cleared == text_frame_clear(dest_shape.paragraphs)
             fresh   == Len(dest_shape.paragraphs)
         IN  [dest_shape EXCEPT !.paragraphs =
                 cleared \o
                 [i \in 1..Len(source_ph.paragraphs) |->
                     [add_paragraph(fresh + i)
                        EXCEPT !.alignment = source_ph.paragraphs[i].alignment,
                               !.level = source_ph.paragraphs[i].level,
                               !.runs = CopyRuns(source_ph.paragraphs[i].runs)]]]

\* copy_text_from_layout_preserving_format(dest_shape, source_ph): nothing unless
\* both have a text frame; the destination is cleared, its remaining paragraph
\* takes the first source paragraph, and a paragraph is added for each other one.
copy_text_from_layout_preserving_format(dest_shape, source_ph) ==
    IF ~source_ph.has_text_frame \/ ~dest_shape.has_text_frame THEN dest_shape
    ELSE LET cleared == text_frame_clear(dest_shape.paragraphs)
             fresh   == Len(dest_shape.paragraphs)
             dest_p(i) == IF i = 1 /\ Len(cleared) > 0 THEN cleared[1]
                          ELSE add_paragraph(fresh + i)
         IN  IF source_ph.paragraphs = <<>> THEN [dest_shape EXCEPT !.paragraphs = cleared]
             ELSE [dest_shape EXCEPT !.paragraphs =
                     [i \in 1..Len(source_ph.paragraphs) |->
                         [dest_p(i) EXCEPT !.alignment = source_ph.paragraphs[i].alignment,
                                           !.level = source_ph.paragraphs[i].level,
                                           !.runs = CopyRuns(source_ph.paragraphs[i].runs)]]]


\* `not shape.text.strip()`: the text of the shape is empty or whitespace.
text_is_blank(sh) ==
    \A k \in 1..Len(sh.paragraphs) :
        \A i \in 1..Len(JoinRuns(sh.paragraphs[k].runs)) : JoinRuns(sh.paragraphs[k].runs)[i] = " "

\* `layout_ph.text and "{{" in layout_ph.text`: paragraphs are joined with a line
\* break, so the two braces are in one paragraph.
text_holds_opening(ph) ==
    \E k \in 1..Len(ph.paragraphs) : HasPair(JoinRuns(ph.paragraphs[k].runs), "{")

\* The loop over slide.slide_layout.placeholders: the first placeholder of the
\* index, 0 if there is none.
FindLayoutPlaceholder(layout, target_idx) ==
    LET m == {k \in 1..Len(layout) : layout[k].idx = target_idx}
    IN  IF m = {} THEN 0 ELSE CHOOSE k \in m : \A l \in m : k <= l

\* The inheritance block without the test on the shape's own text.
InheritFromLayout_any(sh, layout, lookup_fails) ==
    IF ~sh.is_placeholder \/ lookup_fails THEN sh
    ELSE LET k == FindLayoutPlaceholder(layout, sh.idx)
         IN  IF k # 0 /\ layout[k].has_text_frame /\ text_holds_opening(layout[k])
             THEN copy_text_from_layout_preserving_format(sh, layout[k])
             ELSE sh

\* The inheritance block of render_jinja2_in_shape, for a shape with a text frame:
\* an empty placeholder takes the text of the layout placeholder of its index if
\* that text holds "{{"; an exception raised while the layout placeholder is looked
\* for is swallowed.
InheritFromLayout(sh, layout, lookup_fails) ==
    IF ~(sh.is_placeholder /\ text_is_blank(sh)) THEN sh
    ELSE IF lookup_fails THEN sh
    ELSE LET k == FindLayoutPlaceholder(layout, sh.idx)
         IN  IF k # 0 /\ layout[k].has_text_frame /\ text_holds_opening(layout[k])
             THEN copy_text_from_layout_preserving_format(sh, layout[k])
             ELSE sh

\* render_jinja2_in_shape on a shape that holds no table: the shape after the
\* inheritance block, the shape as the call leaves it, and the exception that left
\* the call, if one did.
RenderShapeText(sh, layout, lookup_fails, strict, converter_ok) ==
    IF ~sh.has_text_frame THEN [inherited |-> sh, shape |-> sh, exc |-> "none"]
    ELSE LET inherited == InheritFromLayout(sh, layout, lookup_fails)
             r == render_jinja2_in_textframe(inherited.paragraphs, strict, converter_ok)
         IN  [inherited |-> inherited,
              shape |-> [inherited EXCEPT !.paragraphs = r.paragraphs],
              exc |-> r.exc]

(***************************************************************************)
(* SpecText: a shape with a text frame of one or two paragraphs, on which  *)
(* one of the text functions is called once.                               *)
(***************************************************************************)
\* The runs of a paragraph of n runs with the given texts: the first run in the
\* font, the others in another one.
RunsOf(texts, font) ==
    [j \in 1..Len(texts) |-> Run(texts[j], IF j = 1 THEN font ELSE OtherFont(font))]

\* Every list of up to MaxRuns runs.
RunLists ==
    {RunsOf(texts, font) : texts \in UNION {[1..n -> RunTexts] : n \in 0..MaxRuns}, font \in Fonts}

\* The lists of runs of the frames of several paragraphs: literal text, an
\* expression that renders to text, one that names a variable the context lacks,
\* one that renders to markup, one that is no expression, one whose evaluation
\* raises another error, one that is not closed.
FixedRunLists ==
    {RunsOf(<< <<"Finding: ">> >>, FontB),
     RunsOf(<< <<"{", "{">>, <<"title">>, <<"}", "}">> >>, FontB),
     RunsOf(<< <<"{", "{">>, <<"missing">>, <<"}", "}">> >>, FontA),
     RunsOf(<< <<"{", "{">>, <<"body">>, <<"}", "}">> >>, FontA),
     RunsOf(<< <<"{", "{">>, <<"Finding: ">>, <<"}", "}">> >>, DefaultFont),
     RunsOf(<< <<"{", "{">>, <<"1/0">>, <<"}", "}">> >>, FontB),
     RunsOf(<< <<"}", "}">>, <<"{", "{">>, <<"title">> >>, DefaultFont)}

\* Numbers of paragraphs of the frames of several paragraphs.
FrameLengths == {2, 3}

\* The text frames: one paragraph of any list of runs, or several paragraphs of the
\* fixed lists.
TextFrames ==
    {<<Paragraph(1, r)>> : r \in RunLists}
    \cup {[i \in 1..Len(f) |-> Paragraph(i, f[i])] :
             f \in UNION {[1..n -> FixedRunLists] : n \in FrameLengths}}

\* The texts set_text_preserving_format is given: some text, and the empty string.
NewTexts == {<<"Goodbye">>, <<>>}

InitText ==
    /\ slide_mapping = Doc("None", "missing", <<>>)
    /\ mapping_data = Construct(slide_mapping).mapping_data
    /\ slides = Construct(slide_mapping).slides
    /\ bound = FALSE
    /\ slide_layouts = <<>>
    /\ result = NoResult
    /\ JobIdle
    /\ text_shape \in {[has_text_frame |-> FALSE, paragraphs |-> <<>>]}
                        \cup {[has_text_frame |-> TRUE, paragraphs |-> tf] : tf \in TextFrames}
    /\ call = NoCall

\* render_jinja2_in_textframe(shape.text_frame, jinja_env, context, slide, shape):
\* the environment's undefined is strict or not, the converter works or raises.
RenderTextframeCall(strict, converter_ok) ==
    /\ call.op = "none"
    /\ text_shape.has_text_frame
    /\ LET r == render_jinja2_in_textframe(text_shape.paragraphs, strict, converter_ok)
       IN  /\ text_shape' = [text_shape EXCEPT !.paragraphs = r.paragraphs]
           /\ call' = [op |-> "render_jinja2_in_textframe", strict |-> strict,
                       converter_ok |-> converter_ok, text |-> <<>>,
                       given |-> text_shape, exc |-> r.exc]
    /\ UNCHANGED <<mgr_vars, result, job_vars>>

\* set_text_preserving_format(shape, text).
SetTextCall(text) ==
    /\ call.op = "none"
    /\ text_shape' = set_text_preserving_format(text_shape, text)
    /\ call' = [op |-> "set_text_preserving_format", strict |-> FALSE,
                converter_ok |-> TRUE, text |-> text, given |-> text_shape, exc |-> "none"]
    /\ UNCHANGED <<mgr_vars, result, job_vars>>

NextText ==
    \/ \E strict \in BOOLEAN, converter_ok \in BOOLEAN : RenderTextframeCall(strict, converter_ok)
    \/ \E text \in NewTexts : SetTextCall(text)

SpecText == InitText /\ [][NextText]_vars

(***************************************************************************)
(* SpecLayoutText: a slide shape and the placeholders of its slide's       *)
(* layout; the layout's text is copied to the shape, or the shape is       *)
(* rendered.                                                               *)
(***************************************************************************)
\* The paragraphs of the layout placeholders: two styled paragraphs of several runs
\* with an expression, literal text, an opening delimiter that is not closed, no
\* text, and an expression that renders to markup.
SourceFrames ==
    {<<FormattedParagraph(1, "CENTER", 1,
           RunsOf(<< <<"{", "{">>, <<"title">>, <<"}", "}">> >>, FontA)),
       FormattedParagraph(2, "None", 0, RunsOf(<< <<"Finding: ">>, <<"title">> >>, FontB))>>,
     <<FormattedParagraph(1, "None", 0, RunsOf(<< <<"Finding: ">> >>, DefaultFont))>>,
     <<FormattedParagraph(1, "None", 1, RunsOf(<< <<"{", "{">>, <<"title">> >>, FontB))>>,
     <<FormattedParagraph(1, "CENTER", 0, <<>>)>>,
     <<FormattedParagraph(1, "None", 0, RunsOf(<< <<"{", "{", "body", "}", "}">> >>, FontA))>>}

\* The paragraphs of the slide shapes: no text, whitespace, visible text, an
\* expression of the shape's own followed by an empty paragraph, two blank
\* paragraphs.
DestFrames ==
    {<<FormattedParagraph(1, "None", 0, <<>>)>>,
     <<FormattedParagraph(1, "CENTER", 1, <<Run(<<" ">>, FontA)>>)>>,
     <<FormattedParagraph(1, "None", 0, RunsOf(<< <<"Finding: ">> >>, FontA))>>,
     <<FormattedParagraph(1, "CENTER", 1,
           RunsOf(<< <<"{", "{">>, <<"title">>, <<"}", "}">> >>, FontB)),
       FormattedParagraph(2, "None", 0, <<>>)>>,
     <<FormattedParagraph(1, "None", 1, <<Run(<<" ">>, FontB)>>),
       FormattedParagraph(2, "CENTER", 1, <<>>)>>}

\* placeholder_format.idx of the shapes and of the layout's placeholders.
PlaceholderIdxs == {0, 1}

SlideShapes ==
    {TextShape(TRUE, idx, TRUE, d) : idx \in PlaceholderIdxs, d \in DestFrames}
    \cup {TextShape(FALSE, 0, TRUE, d) : d \in DestFrames}
    \cup {TextShape(TRUE, 0, FALSE, <<>>), TextShape(FALSE, 0, FALSE, <<>>)}

LayoutPlaceholders ==
    {TextShape(TRUE, idx, TRUE, f) : idx \in PlaceholderIdxs, f \in SourceFrames}
    \cup {TextShape(TRUE, idx, FALSE, <<>>) : idx \in PlaceholderIdxs}

\* slide.slide_layout.placeholders: up to two placeholders.
SlideLayouts == UNION {[1..n -> LayoutPlaceholders] : n \in 0..2}

InitLayoutText ==
    /\ slide_mapping = Doc("None", "missing", <<>>)
    /\ mapping_data = Construct(slide_mapping).mapping_data
    /\ slides = Construct(slide_mapping).slides
    /\ bound = FALSE
    /\ slide_layouts = <<>>
    /\ result = NoResult
    /\ JobIdle
    /\ text_shape \in SlideShapes
    /\ call = NoCall

\* copy_text_from_layout_preserving_format(dest_shape, source_ph).
CopyTextCall(source_ph) ==
    /\ call.op = "none"
    /\ text_shape' = copy_text_from_layout_preserving_format(text_shape, source_ph)
    /\ call' = [op |-> "copy_text_from_layout_preserving_format", given |-> text_shape,
                source |-> source_ph, layout |-> <<>>, lookup_fails |-> FALSE,
                strict |-> FALSE, converter_ok |-> TRUE, inherited |-> text_shape,
                exc |-> "none"]
    /\ UNCHANGED <<mgr_vars, result, job_vars>>

\* render_jinja2_in_shape(shape, jinja_env, context, slide), the slide's layout
\* holding the placeholders: finding the layout placeholder raises or not, the
\* environment's undefined is strict or not, the converter works or raises.
RenderShapeCall(layout, lookup_fails, strict, converter_ok) ==
    /\ call.op = "none"
    /\ LET r == RenderShapeText(text_shape, layout, lookup_fails, strict, converter_ok)
       IN  /\ text_shape' = r.shape
           /\ call' = [op |-> "render_jinja2_in_shape", given |-> text_shape,
                       source |-> text_shape, layout |-> layout,
                       lookup_fails |-> lookup_fails, strict |-> strict,
                       converter_ok |-> converter_ok, inherited |-> r.inherited,
                       exc |-> r.exc]
    /\ UNCHANGED <<mgr_vars, result, job_vars>>

NextLayoutText ==
    \/ \E source_ph \in LayoutPlaceholders : CopyTextCall(source_ph)
    \/ \E layout \in SlideLayouts, lookup_fails \in BOOLEAN, strict \in BOOLEAN,
          converter_ok \in BOOLEAN :
           RenderShapeCall(layout, lookup_fails, strict, converter_ok)

SpecLayoutText == InitLayoutText /\ [][NextLayoutText]_vars

(***************************************************************************)
(* SpecLint: ExportBasePptx.lint(template_loc, report_template) on a       *)
(* template file and the template record's persisted mapping.              *)
(***************************************************************************)
\* The steps of lint's try block that can raise, and "none".
LintSteps == {"none", "os.path.exists", "Presentation", "slides", "validate"}

\* What is raised: the template error lint names, or any other exception.
LintErrors == {"ReportExportTemplateError", "PackageNotFoundError"}

\* lint's handlers with `except ReportExportTemplateError` alone: any other
\* exception leaves lint.
LintHandlers_template_only(warnings, errors, opened, error) ==
    IF error = "ReportExportTemplateError"
    THEN [returned |-> TRUE, warnings |-> warnings,
          errors |-> Append(errors, PlainMsg("linting_failed", error)),
          opened |-> opened, exc |-> "none"]
    ELSE [returned |-> FALSE, warnings |-> <<>>, errors |-> <<>>,
          opened |-> opened, exc |-> error]

\* lint's handlers: `except ReportExportTemplateError` appends "Linting failed: ...",
\* `except Exception` appends "Template rendering failed unexpectedly"; lint then
\* returns the two lists.
LintHandlers(warnings, errors, opened, error) ==
    [returned |-> TRUE, warnings |-> warnings,
     errors |-> Append(errors, IF error = "ReportExportTemplateError"
                               THEN PlainMsg("linting_failed", error)
                               ELSE PlainMsg("failed_unexpectedly", "")),
     opened |-> opened, exc |-> "none"]

\* lint: whether it returned, the two lists, whether Presentation(template_loc) was
\* called, and the exception that left it, if one did. path_exists is
\* os.path.exists(template_loc), slide_count and layouts are what the file holds,
\* doc is report_template.slide_mapping (report_template may be None), and step is
\* the step that raises error.
lint(path_exists, slide_count, layouts, has_report_template, doc, step, error) ==
    IF step = "os.path.exists" THEN LintHandlers(<<>>, <<>>, FALSE, error)
    ELSE IF ~path_exists
    THEN [returned |-> TRUE, warnings |-> <<>>,
          errors |-> <<PlainMsg("template_missing", "")>>, opened |-> FALSE, exc |-> "none"]
    ELSE IF step \in {"Presentation", "slides"} THEN LintHandlers(<<>>, <<>>, TRUE, error)
    ELSE LET warnings == IF slide_count > 0 THEN <<PlainMsg("contains_slides", "")>> ELSE <<>>
         IN  IF ~(has_report_template /\ doc.kind # "None")
             THEN [returned |-> TRUE, warnings |-> warnings, errors |-> <<>>,
                   opened |-> TRUE, exc |-> "none"]
             ELSE IF step = "validate" THEN LintHandlers(warnings, <<>>, TRUE, error)
             ELSE LET v == validate(Construct(doc).slides, TRUE, layouts)
                  IN  [returned |-> TRUE, warnings |-> warnings \o v.warnings,
                       errors |-> v.errors, opened |-> TRUE, exc |-> "none"]

\* report_template.slide_mapping: none, not a dict, an empty list, and lists with an
\* invalid mode, a layout index out of range, or neither.
LintDocs ==
    {Doc("None", "missing", <<>>), Doc("nondict", "missing", <<>>), Doc("dict", "list", <<>>)}
    \cup {Doc("dict", "list", <<Entry("title", li, m, TRUE, 1), Entry("final", 0, "static", en, 2)>>) :
             li \in LayoutIndexes, m \in Modes, en \in BOOLEAN}

\* Numbers of slides the template file holds.
SlideCounts == {0, 1}

InitLint ==
    /\ slide_mapping \in LintDocs
    /\ mapping_data = Construct(slide_mapping).mapping_data
    /\ slides = Construct(slide_mapping).slides
    /\ bound = TRUE
    /\ slide_layouts \in {BlankTemplate(n) : n \in 1..MaxLayouts}
    /\ result = NoResult
    /\ JobIdle
    /\ NoTextCall

\* ExportBasePptx.lint(template_loc, report_template).
LintCall(path_exists, slide_count, has_report_template, step, error) ==
    /\ pc = "idle"
    /\ result.op = "none"
    /\ step = "none" => error = "PackageNotFoundError"
    /\ result' = [op |-> "lint", path_exists |-> path_exists, slide_count |-> slide_count,
                  has_report_template |-> has_report_template, step |-> step,
                  error |-> error,
                  value |-> lint(path_exists, slide_count, slide_layouts,
                                 has_report_template, slide_mapping, step, error)]
    /\ UNCHANGED <<mgr_vars, txt_vars, job_vars>>

NextLint ==
    \E path_exists \in BOOLEAN, slide_count \in SlideCounts, has_report_template \in BOOLEAN,
       step \in LintSteps, error \in LintErrors :
        LintCall(path_exists, slide_count, has_report_template, step, error)

SpecLint == InitLint /\ [][NextLint]_vars


(***************************************************************************)
(* Properties of the manager (SpecMapping).                                *)
(***************************************************************************)
\* The entries of a "slides" list that hold the four required keys, by index.
ParsableIn(raw) == {i \in 1..Len(raw) : raw[i].isDict /\ RequiredKeys \subseteq raw[i].keys}

\* The k-th smallest element of a set of indexes.
KthOf(S, k) == CHOOSE i \in S : Cardinality({j \in S : j <= i}) = k

IsDefaultSlides(s) ==
    /\ Len(s) = 14
    /\ s[1].type = "title"
    /\ s[14].type = "final"
    /\ s = [i \in 1..14 |-> SlideConfig(DEFAULT_MAPPING.slides[i].type,
                                        DEFAULT_MAPPING.slides[i].layout_index,
                                        DEFAULT_MAPPING.slides[i].mode,
                                        DEFAULT_MAPPING.slides[i].enabled,
                                        DEFAULT_MAPPING.slides[i].position)]

\* The three malformed shapes of C4.
MissingSlidesKey(d) == d.kind = "dict" /\ d.slidesKind = "missing"
NotADict(d) == d.kind = "nondict"
HasEntryLackingField(d) ==
    /\ d.kind = "dict"
    /\ d.slidesKind = "list"
    /\ \E i \in 1..Len(d.slides) :
          d.slides[i].isDict /\ ~(RequiredKeys \subseteq d.slides[i].keys)

C10_PerEntrySkip ==
    (slide_mapping.kind = "dict" /\ slide_mapping.slidesKind = "list") =>
        LET raw  == slide_mapping.slides
            kept == ParsableIn(raw)
        IN  /\ Len(slides) = Cardinality(kept)
            /\ \A k \in 1..Len(slides) :
                  LET e == raw[KthOf(kept, k)]
                  IN  /\ slides[k].type = e.type
                      /\ slides[k].layout_index = e.layout_index
                      /\ slides[k].mode = e.mode
                      /\ slides[k].position = e.position
                      /\ slides[k].enabled = (IF "enabled" \in e.keys THEN e.enabled ELSE TRUE)

\* C10 witness: a list whose first entry fails to parse and whose second is kept.
C10_Witness ==
    /\ slide_mapping.kind = "dict"
    /\ slide_mapping.slidesKind = "list"
    /\ Len(slide_mapping.slides) = 2
    /\ 1 \notin ParsableIn(slide_mapping.slides)
    /\ 2 \in ParsableIn(slide_mapping.slides)
    /\ Len(slides) = 1

\* C6: get_slides_by_position() returns exactly the enabled entries (each once, none
\* disabled), in ascending position order, entries of equal position in document order:
\* the result is sorted, and for every position its entries of that position are the
\* enabled entries of that position, in the order of the document.
C6_OrderedEnabled ==
    result.op = "get_slides_by_position" =>
        LET v == result.value
        IN  /\ \A k, l \in 1..Len(v) : k < l => v[k].position <= v[l].position
            /\ \A k \in 1..Len(v) : v[k].enabled
            /\ \A p \in {slides[i].position : i \in 1..Len(slides)}
                        \cup {v[k].position : k \in 1..Len(v)} :
                  SelectSeq(v, LAMBDA c : c.position = p)
                    = SelectSeq(slides, LAMBDA c : c.enabled /\ c.position = p)

\* C6 witness: of three entries the disabled middle one was left out and the two
\* enabled ones, out of position order in the document, were returned reordered.
C6_Witness ==
    /\ result.op = "get_slides_by_position"
    /\ Len(slides) = 3
    /\ slides[1].enabled /\ ~slides[2].enabled /\ slides[3].enabled
    /\ slides[1].position > slides[3].position
    /\ result.value = <<slides[3], slides[1]>>

\* C7: with a template bound, get_layout_index(slide_type, fallback) returns fallback
\* when the type has no entry, when its (first) entry is disabled or when that entry's
\* layout_index is >= the template's layout count, and the configured layout_index
\* in every other case.
C7_LayoutIndexOrFallback ==
    (result.op = "get_layout_index" /\ bound) =>
        LET m == {i \in 1..Len(slides) : slides[i].type = result.slide_type}
        IN  IF m = {} THEN result.value = result.fallback
            ELSE LET c == slides[CHOOSE i \in m : \A j \in m : i <= j]
                 IN  IF ~c.enabled \/ c.layout_index >= Len(slide_layouts)
                     THEN result.value = result.fallback
                     ELSE result.value = c.layout_index

\* C7 witness: an enabled entry whose index equals the layout count resolved to a
\* fallback that differs from it.
C7_Witness ==
    /\ result.op = "get_layout_index"
    /\ bound
    /\ Len(slides) >= 1
    /\ slides[1].type = result.slide_type
    /\ slides[1].enabled
    /\ slides[1].layout_index = Len(slide_layouts)
    /\ result.fallback # slides[1].layout_index
    /\ result.value = result.fallback

\* The index of the first entry of the type in document order, 0 if there is none.
FirstOfType(s, t) ==
    LET m == {i \in 1..Len(s) : s[i].type = t}
    IN  IF m = {} THEN 0 ELSE CHOOSE i \in m : \A j \in m : i <= j

\* C13: get_slide_config(slide_type) returns the first entry in document order whose
\* type is slide_type and nothing when no entry matches; is_slide_enabled(slide_type)
\* returns that first entry's enabled flag, and true when no entry matches.
C13_FirstMatch ==
    /\ result.op = "get_slide_config" =>
          LET i == FirstOfType(slides, result.slide_type)
          IN  IF i = 0 THEN ~result.value.found
              ELSE result.value.found /\ result.value.cfg = slides[i]
    /\ result.op = "is_slide_enabled" =>
          LET i == FirstOfType(slides, result.slide_type)
          IN  result.value = (IF i = 0 THEN TRUE ELSE slides[i].enabled)

\* C13 witness: of two entries of the asked type, the first disabled and the second
\* enabled, is_slide_enabled answered with the first one's flag.
C13_Witness ==
    /\ result.op = "is_slide_enabled"
    /\ Len(slides) = 2
    /\ slides[1].type = result.slide_type /\ slides[2].type = result.slide_type
    /\ ~slides[1].enabled /\ slides[2].enabled
    /\ result.value = FALSE

\* How many messages of a list are of the kind.
CountKind(msgs, kind) == Len(SelectSeq(msgs, LAMBDA m : m.kind = kind))

\* C14 as claimed: validate() returns exactly one duplicate-position warning when at
\* least two entries of the mapping share a position, and none when all positions
\* are distinct.
C14_OneWarningForSharedPosition ==
    result.op = "validate" =>
        CountKind(result.value.warnings, "duplicate_position")
          = (IF \E i, j \in 1..Len(slides) : i # j /\ slides[i].position = slides[j].position
             THEN 1 ELSE 0)

\* C14 as amended: validate() returns exactly one duplicate-position warning when at
\* least two enabled entries share a position, however many collide, and none when
\* the positions of the enabled entries are distinct; disabled entries do not count.
C14_OneWarningForSharedEnabledPosition ==
    result.op = "validate" =>
        CountKind(result.value.warnings, "duplicate_position")
          = (IF \E i, j \in 1..Len(slides) :
                   /\ i # j
                   /\ slides[i].enabled /\ slides[j].enabled
                   /\ slides[i].position = slides[j].position
             THEN 1 ELSE 0)

\* C14 witness: three enabled entries of one position gave one warning.
C14_Witness ==
    /\ result.op = "validate"
    /\ Len(slides) = 3
    /\ \A i \in 1..3 : slides[i].enabled /\ slides[i].position = slides[1].position
    /\ CountKind(result.value.warnings, "duplicate_position") = 1

\* The layout-index errors about a type and an index, and the entries of that type
\* and index.
LayoutErrorsAbout(msgs, t, li) ==
    Len(SelectSeq(msgs, LAMBDA m : m.kind = "layout_index" /\ m.type = t /\ m.layout_index = li))
EntriesWith(s, t, li, enabledOnly) ==
    Len(SelectSeq(s, LAMBDA c : c.type = t /\ c.layout_index = li /\ (enabledOnly => c.enabled)))

\* C15 as claimed: with a template bound, validate() returns one layout-index error
\* for each entry whose layout_index is not below the layout count, and none for an
\* entry whose index is in range.
C15_ErrorPerOutOfRangeEntry ==
    (result.op = "validate" /\ bound) =>
        \A t \in {slides[i].type : i \in 1..Len(slides)} : \A li \in LayoutIndexes :
            LayoutErrorsAbout(result.value.errors, t, li)
              = (IF li >= Len(slide_layouts) THEN EntriesWith(slides, t, li, FALSE) ELSE 0)

\* C15 as amended: with a template bound, validate() returns one layout-index error
\* for each enabled entry whose layout_index is not below the layout count, and none
\* for an entry that is disabled or whose index is in range.
C15_ErrorPerEnabledOutOfRangeEntry ==
    (result.op = "validate" /\ bound) =>
        /\ \A t \in {slides[i].type : i \in 1..Len(slides)} : \A li \in LayoutIndexes :
              LayoutErrorsAbout(result.value.errors, t, li)
                = (IF li >= Len(slide_layouts) THEN EntriesWith(slides, t, li, TRUE) ELSE 0)
        /\ CountKind(result.value.errors, "layout_index")
              = Len(SelectSeq(slides, LAMBDA c : c.enabled /\ c.layout_index >= Len(slide_layouts)))

\* C15 witness: an enabled entry whose index equals the layout count and an enabled
\* entry in range gave one layout-index error.
C15_Witness ==
    /\ result.op = "validate"
    /\ bound
    /\ Len(slides) = 2
    /\ slides[1].enabled /\ slides[1].layout_index = Len(slide_layouts)
    /\ slides[2].enabled /\ slides[2].layout_index < Len(slide_layouts)
    /\ CountKind(result.value.errors, "layout_index") = 1

\* The required-type warnings about a type.
RequiredWarningsAbout(msgs, t) ==
    Len(SelectSeq(msgs, LAMBDA m : m.kind = "required_type" /\ m.type = t))

C17_ErrorPerInvalidMode ==
    result.op = "validate" =>
        /\ CountKind(result.value.errors, "invalid_mode")
              = Len(SelectSeq(slides, LAMBDA c : c.mode # "static" /\ c.mode # "dynamic"))
        /\ \A t \in {slides[i].type : i \in 1..Len(slides)} : \A m \in Modes :
              Len(SelectSeq(result.value.errors,
                            LAMBDA e : e.kind = "invalid_mode" /\ e.type = t /\ e.mode = m))
                = (IF m \in {"static", "dynamic"} THEN 0
                   ELSE Len(SelectSeq(slides, LAMBDA c : c.type = t /\ c.mode = m)))

\* C17 witness: a disabled entry of an invalid mode and an enabled entry of a valid
\* one gave one invalid-mode error.
C17_Witness ==
    /\ result.op = "validate"
    /\ Len(slides) = 2
    /\ ~slides[1].enabled /\ slides[1].mode = "dynamic-ish"
    /\ slides[2].enabled /\ slides[2].mode = "static"
    /\ CountKind(result.value.errors, "invalid_mode") = 1

\* C18: a call of validate() leaves the slide list and the mapping data as they were,
\* a call that follows another returns the same warnings and errors, and the lookups
\* and the ordering query give after it what they gave before it.
C18_ValidateChangesNothing ==
    [][result'.op = "validate" =>
          /\ slides' = slides
          /\ mapping_data' = mapping_data
          /\ (result.op = "validate" => result'.value = result.value)
          /\ result'.value = validate(slides', bound', slide_layouts')
          /\ get_slides_by_position(slides') = get_slides_by_position(slides)
          /\ \A t \in QueryTypes :
                /\ get_slide_config(slides', t) = get_slide_config(slides, t)
                /\ is_slide_enabled(slides', t) = is_slide_enabled(slides, t)]_vars

\* C18 witness: validate() was called on a mapping with a disabled entry and returned
\* a warning and an error.
C18_Witness ==
    /\ result.op = "validate"
    /\ \E i \in 1..Len(slides) : ~slides[i].enabled
    /\ result.value.warnings # <<>>
    /\ result.value.errors # <<>>

\* C19: a second manager built from the first one's to_dict() holds a slide list of
\* the same length with, entry by entry, the same type, layout_index, mode, enabled
\* flag and position, and its to_dict() is the same dictionary.
C19_RoundTrip ==
    result.op = "to_dict" =>
        /\ Len(result.slides) = Len(slides)
        /\ \A i \in 1..Len(slides) :
              /\ result.slides[i].type = slides[i].type
              /\ result.slides[i].layout_index = slides[i].layout_index
              /\ result.slides[i].mode = slides[i].mode
              /\ result.slides[i].enabled = slides[i].enabled
              /\ result.slides[i].position = slides[i].position
        /\ result.again = result.value

\* C19 witness: a document of version 2 whose first entry is disabled and whose
\* second is enabled went through to_dict() and back.
C19_Witness ==
    /\ result.op = "to_dict"
    /\ Len(slides) = 2
    /\ ~slides[1].enabled
    /\ slides[2].enabled
    /\ result.value.hasVersion /\ result.value.version = 2
    /\ Len(result.slides) = 2

(***************************************************************************)
(* The ordered list against the per-type lookups.                          *)
(***************************************************************************)
\* C28: every slide type that occurs in get_slides_by_position() is reported as
\* enabled by is_slide_enabled(type), also when a type has several entries.
C28_ListedTypesAreEnabled ==
    result.op = "get_slides_by_position" =>
        \A i \in 1..Len(result.value) : is_slide_enabled(slides, result.value[i].type)

\* Each type occurs once in the mapping.
TypesOccurOnce(s) == \A i, j \in 1..Len(s) : s[i].type = s[j].type => i = j

\* C29: with a template bound and each type occurring once, validate() reports a
\* layout-index error for an entry exactly when get_layout_index for the entry's type
\* abandons the configured index because it is out of range (and then returns the
\* fallback, whatever the fallback is).
C29_FlaggedIffFallsBack ==
    (result.op = "validate" /\ bound /\ TypesOccurOnce(slides)) =>
        \A i \in 1..Len(slides) :
            LET t       == slides[i].type
                flagged == LayoutErrorsAbout(result.value.errors, t, slides[i].layout_index) > 0
                falls   == get_layout_index_out_of_range(slides, bound, slide_layouts, t)
            IN  /\ flagged <=> falls
                /\ falls => \A fb \in 0..MaxFallback :
                       get_layout_index(slides, bound, slide_layouts, t, fb) = fb
                /\ ~falls /\ slides[i].enabled => \A fb \in 0..MaxFallback :
                       get_layout_index(slides, bound, slide_layouts, t, fb) = slides[i].layout_index

\* C29 witness: of two entries of different types and one out-of-range index, one
\* enabled and one disabled, validate() flagged the enabled one only.
C29_Witness ==
    /\ result.op = "validate" /\ bound
    /\ Len(slides) = 2 /\ TypesOccurOnce(slides)
    /\ slides[1].enabled /\ ~slides[2].enabled
    /\ slides[1].layout_index = Len(slide_layouts)
    /\ slides[2].layout_index = Len(slide_layouts)
    /\ CountKind(result.value.errors, "layout_index") = 1
    /\ get_layout_index_out_of_range(slides, bound, slide_layouts, slides[1].type)
    /\ ~get_layout_index_out_of_range(slides, bound, slide_layouts, slides[2].type)

(***************************************************************************)
(* Properties of the export jobs (SpecExport).                             *)
(***************************************************************************)
\* The entry the loop of run() is about to process.
Current == slides_config[pos + 1]

\* The slides a step appended to the deck.
Added == SubSeq(deck', Len(deck) + 1, Len(deck'))

\* The step processed its entry and run() goes on, with the next entry or the post-pass.
GoesOn == pos' = pos + 1 /\ pc' \in {"loop", "footers"} /\ exc' = "none"

\* A slide cloned from the layout, every top-level shape rendered with the context.
RenderedOn(slide, layout_index, ctx) ==
    /\ slide.layout = layout_index
    /\ slide.context = ctx
    /\ Len(slide.shapes) = Cardinality({j \in 1..Len(slide_layouts[layout_index + 1]) :
                                          Cloneable(slide_layouts[layout_index + 1][j])})
    /\ \A j \in 1..Len(slide.shapes) : slide.shapes[j].ctx = ctx

\* C1 as claimed: an enabled entry whose layout_index is >= the template's layout
\* count never aborts the job: run() is never left by an exception at such an entry.
C1_OutOfRangeNeverAborts ==
    pc = "raised" =>
        ~(Current.enabled /\ Current.layout_index >= Len(slide_layouts) /\ exc = "IndexError")

\* C2 as claimed: in the report export an enabled "finding" or "observation" entry in
\* dynamic mode, on any layout of the template, with a collection of N items appends
\* exactly N slides, the k-th for the k-th item with every top-level shape rendered
\* with that item's context, and the job goes on with the next entry.
C2_OneSlidePerItem ==
    [][(/\ pc = "loop"
        /\ job = "report"
        /\ Current.type \in {"finding", "observation"}
        /\ Current.mode = "dynamic"
        /\ Current.layout_index < Len(slide_layouts))
       => LET n == IF Current.type = "finding" THEN base_context.findings
                   ELSE base_context.observations
          IN  /\ GoesOn
              /\ Len(deck') = Len(deck) + n
              /\ SubSeq(deck', 1, Len(deck)) = deck
              /\ \A k \in 1..n :
                    RenderedOn(Added[k], Current.layout_index, ItemCtx(Current.type, k))]_vars

\* C5 as claimed: every enabled entry with mode "static", whatever its type, appends
\* exactly one slide cloned from its configured layout, every top-level shape rendered
\* with the global context.
C5_StaticAddsOneSlide ==
    [][(/\ pc = "loop"
        /\ Current.mode = "static"
        /\ Current.layout_index < Len(slide_layouts))
       => /\ Len(deck') = Len(deck) + 1
          /\ SubSeq(deck', 1, Len(deck)) = deck
          /\ RenderedOn(Added[1], Current.layout_index, GlobalCtx)]_vars

\* C5 as amended: an enabled entry with mode "static" whose layout_index names a
\* layout of the template appends exactly one slide cloned from that layout, every
\* top-level shape rendered with the global context, unless the job is the report
\* export and the type is "finding" or "observation": then it appends no slide. In
\* both cases the job goes on.
C5_StaticAddsOneSlideUnlessPerItem ==
    [][(/\ pc = "loop"
        /\ Current.mode = "static"
        /\ Current.layout_index < Len(slide_layouts))
       => /\ GoesOn
          /\ IF job = "report" /\ Current.type \in {"finding", "observation"}
             THEN deck' = deck
             ELSE /\ Len(deck') = Len(deck) + 1
                  /\ SubSeq(deck', 1, Len(deck)) = deck
                  /\ RenderedOn(Added[1], Current.layout_index, GlobalCtx)]_vars

\* C5 witness: a static entry on a layout with placeholders was processed and left
\* one slide whose shapes are rendered with the global context.
C5_Witness ==
    /\ pos = 1
    /\ slides_config[1].mode = "static"
    /\ Len(deck) = 1
    /\ deck[1].shapes # <<>>
    /\ RenderedOn(deck[1], slides_config[1].layout_index, GlobalCtx)

\* The slide types run() has a branch for.
Recognised(j) == IF j = "report" THEN ProjectSlideTypes \cup ReportSlideTypes ELSE ProjectSlideTypes

\* C9 as claimed: an enabled entry of a type the job's dispatcher does not recognise
\* appends exactly one slide when its mode is "static", appends no slide and raises
\* nothing when its mode is "dynamic", and in both cases the job goes on.
C9_UnrecognisedType ==
    [][(/\ pc = "loop"
        /\ Current.type \notin Recognised(job)
        /\ Current.mode \in {"static", "dynamic"})
       => /\ GoesOn
          /\ IF Current.mode = "static"
             THEN Len(deck') = Len(deck) + 1 /\ SubSeq(deck', 1, Len(deck)) = deck
             ELSE deck' = deck]_vars

\* The slide holds a shape with the text, and the slide holds a table.
HoldsText(slide, t) == \E j \in 1..Len(slide.shapes) : slide.shapes[j].text = t
HoldsTable(slide) == \E j \in 1..Len(slide.shapes) : slide.shapes[j].by = "add_table"

\* A report job on the default mapping with no finding and no observation is over.
DefaultJobWithoutItemsOver ==
    /\ job = "report"
    /\ slide_mapping.kind = "None"
    /\ base_context = [findings |-> 0, observations |-> 0]
    /\ pc \in {"done", "raised"}

\* The saved deck holds one slide with the bullet "No observations" and, after it,
\* one with the bullet "No findings", and neither holds a table.
OverviewsHoldBullets ==
    /\ pc = "done"
    /\ \E k, l \in 1..Len(out) :
          /\ k < l
          /\ HoldsText(out[k], "No observations") /\ ~HoldsTable(out[k])
          /\ HoldsText(out[l], "No findings") /\ ~HoldsTable(out[l])
          /\ \A m \in 1..Len(out) :
                /\ HoldsText(out[m], "No observations") => m = k
                /\ HoldsText(out[m], "No findings") => m = l
                /\ ~HoldsTable(out[m])

\* C23 as claimed: a report job run with the default mapping, no finding and no
\* observation produces an observations-overview slide with the bullet
\* "No observations" and a findings-overview slide with the bullet "No findings",
\* and adds a table to neither.
C23_NoItemsBullets == DefaultJobWithoutItemsOver => OverviewsHoldBullets

\* C23 where the default mapping fits the template: the same, on a template that holds every layout the default
\* mapping names and whose content layout (index 1) gives the slide a body shape.
C23_NoItemsBulletsOnFittingTemplate ==
    (/\ DefaultJobWithoutItemsOver
     /\ Len(slide_layouts) > SLD_LAYOUT_FINAL
     /\ \E j \in 1..Len(slide_layouts[2]) :
           Cloneable(slide_layouts[2][j]) /\ slide_layouts[2][j] # "Title")
    => OverviewsHoldBullets

\* C23 witness: the default job without items on the full template was saved with
\* twelve slides, the eighth with "No observations" and the ninth with "No findings".
C23_Witness ==
    /\ DefaultJobWithoutItemsOver
    /\ pc = "done"
    /\ Len(out) = 12
    /\ HoldsText(out[8], "No observations")
    /\ HoldsText(out[9], "No findings")
    /\ ~HoldsTable(out[8]) /\ ~HoldsTable(out[9])


\* The enabled entries of the mapping, in document order.
EnabledInDocumentOrder == SelectSeq(slides, LAMBDA s : s.enabled)

\* The entries of the list at one position.
AtPosition(list, p) == SelectSeq(list, LAMBDA s : s.position = p)

\* The list run() iterates over holds the enabled entries in ascending position
\* order, those at one position in document order.
InPositionOrder ==
    /\ \A i, k \in 1..Len(slides_config) :
          i < k => slides_config[i].position <= slides_config[k].position
    /\ Len(slides_config) = Len(EnabledInDocumentOrder)
    /\ \A p \in {slides[i].position : i \in 1..Len(slides)} :
          AtPosition(slides_config, p) = AtPosition(EnabledInDocumentOrder, p)

\* How far run() has come.
Stage(p) ==
    CASE p = "run" -> 0 [] p = "loop" -> 1 [] p = "footers" -> 2
      [] p = "save" -> 3 [] p = "done" -> 4 [] p = "raised" -> 4

AsDynamic ==
    Dispatch(job, deck, slide_layouts, [Current EXCEPT !.mode = "dynamic"], base_context)

\* What create_static_slide would leave for the entry.
AsStatic == create_static_slide(deck, slide_layouts, Current.layout_index)

\* C30: in both export jobs an enabled entry of a type run() has a branch for whose
\* mode is anything but "static", "dynamic" or not, is handled by the type's dynamic
\* builder: the step leaves what it leaves for mode "dynamic", and where the static
\* path would have rendered a slide's shapes the step did not take it.
C30_OnlyStaticChangesPath ==
    [][(/\ pc = "loop"
        /\ Current.enabled
        /\ Current.type \in Recognised(job)
        /\ Current.mode # "static")
       => /\ deck' = AsDynamic.deck
          /\ exc' = AsDynamic.exc
          /\ (/\ AsStatic.exc = "none"
              /\ AsStatic.deck[Len(deck) + 1].shapes # <<>>)
             => deck' # AsStatic.deck]_vars

\* C30 witness: a "title" entry with a mode that is neither "static" nor "dynamic"
\* was processed and left one slide with the text the dynamic builder writes.
C30_Witness ==
    /\ pos = 1
    /\ exc = "none"
    /\ slides_config[1].type = "title"
    /\ slides_config[1].mode \notin {"static", "dynamic"}
    /\ Len(deck) = 1
    /\ \E j \in 1..Len(deck[1].shapes) : deck[1].shapes[j].text = "built"


(***************************************************************************)
(* Properties of the footer post-pass (SpecFooters).                       *)
(***************************************************************************)
FooterKinds == {"Footer", "Slide Number", "Date"}

FooterText(sub) ==
    IF sub = "Footer" THEN "footer" ELSE IF sub = "Slide Number" THEN "slide_number" ELSE "date"

\* C3 as claimed: the post-pass clones no footer, slide-number or date placeholder
\* onto the first slide of the deck.
C3_FirstSlideKeepsItsShapes ==
    pc \in {"save", "done"} =>
        \A j \in 1..Len(deck[1].shapes) : deck[1].shapes[j].by # "process_footers"

\* C8 as claimed: on every slide after the first, each footer, slide-number and date
\* placeholder of the slide's layout is cloned onto the slide and populated, whatever
\* its position among the layout's placeholders.
C8_EveryFooterPlaceholderCloned ==
    pc \in {"save", "done"} =>
        \A i \in 2..Len(deck) : \A sub \in FooterKinds :
            (\E j \in 1..Len(slide_layouts[deck[i].layout + 1]) :
                NameContains(slide_layouts[deck[i].layout + 1][j], sub))
            => \E k \in 1..Len(deck[i].shapes) :
                  /\ deck[i].shapes[k].by = "process_footers"
                  /\ NameContains(deck[i].shapes[k].name, sub)
                  /\ deck[i].shapes[k].text = FooterText(sub)

(***************************************************************************)
(* Properties of the text functions (SpecText).                            *)
(***************************************************************************)
\* The text frame as it was when the call was made, and as the call left it.
Given == call.given.paragraphs
Left == text_shape.paragraphs

\* What evaluating a paragraph's joined run text gives: "none" for a paragraph
\* without both delimiters, else the exception raised ("failed") or the rendered
\* text ("plain" or "markup").
Evaluation(p, strict) ==
    LET text == JoinRuns(p.runs)
    IN  IF ~(HasPair(text, "{") /\ HasPair(text, "}")) THEN [kind |-> "none", text |-> <<>>]
        ELSE LET template == from_string(text, 1)
             IN  IF template.exc # "none" THEN [kind |-> "failed", text |-> <<>>]
                 ELSE LET rendered == template_render(template.parts, strict)
                      IN  IF rendered.exc # "none" THEN [kind |-> "failed", text |-> <<>>]
                          ELSE [kind |-> IF is_html(rendered.text) THEN "markup" ELSE "plain",
                                text |-> rendered.text]

\* The same six style fields.
SameStyle(f, g) ==
    /\ f.name = g.name
    /\ f.size = g.size
    /\ f.bold = g.bold
    /\ f.italic = g.italic
    /\ f.underline = g.underline
    /\ f.color = g.color

\* The paragraph object p is in the frame with one run, of the text.
HoldsRendered(frame, p, text) ==
    \E j \in 1..Len(frame) :
        /\ frame[j].id = p.id
        /\ Len(frame[j].runs) = 1
        /\ frame[j].runs[1].text = text

\* C11: when the evaluation of a paragraph's expression fails (undefined variable,
\* or another error), render_jinja2_in_textframe leaves that paragraph with the runs
\* it had, lets no exception escape, and still processes every later paragraph: a
\* later paragraph whose expression gives text holds the rendered text, one whose
\* expression gives markup no longer holds its runs.
C11_FailureLeavesParagraph ==
    call.op = "render_jinja2_in_textframe" =>
        /\ call.exc = "none"
        /\ \A k \in 1..Len(Given) :
              Evaluation(Given[k], call.strict).kind = "failed" =>
                  /\ \E j \in 1..Len(Left) : Left[j] = Given[k]
                  /\ \A l \in (k + 1)..Len(Given) :
                        LET e == Evaluation(Given[l], call.strict)
                        IN  /\ e.kind = "plain" => HoldsRendered(Left, Given[l], e.text)
                            /\ e.kind = "markup" => \A j \in 1..Len(Left) : Left[j] # Given[l]

\* C11 witness: the first paragraph names a variable the context lacks and is as it
\* was, the second one was rendered.
C11_Witness ==
    /\ call.op = "render_jinja2_in_textframe"
    /\ call.strict
    /\ Len(Given) = 2
    /\ JoinRuns(Given[1].runs) = <<"{", "{", "missing", "}", "}">>
    /\ Len(Left) = 2
    /\ Left[1] = Given[1]
    /\ JoinRuns(Given[2].runs) = <<"{", "{", "title", "}", "}">>
    /\ JoinRuns(Left[2].runs) = <<"Example">>

\* C12: when a paragraph's joined run text holds an expression and the result of the
\* evaluation is plain text, the paragraph ends with exactly one run, whose text is
\* the rendered result and whose font name, size, bold, italic, underline and color
\* are those of the paragraph's original first run, however many runs there were.
C12_OneRunInFirstStyle ==
    call.op = "render_jinja2_in_textframe" =>
        \A k \in 1..Len(Given) :
            LET e == Evaluation(Given[k], call.strict)
            IN  e.kind = "plain" =>
                    \E j \in 1..Len(Left) :
                        /\ Left[j].id = Given[k].id
                        /\ Len(Left[j].runs) = 1
                        /\ Left[j].runs[1].text = e.text
                        /\ SameStyle(Left[j].runs[1].font, Given[k].runs[1].font)

\* C12 witness: an expression split across three runs of two fonts, the first with
\* an RGB color, was rendered into one run in the first run's font.
C12_Witness ==
    /\ call.op = "render_jinja2_in_textframe"
    /\ Len(Given) = 1
    /\ Len(Given[1].runs) = 3
    /\ Given[1].runs[1].text = <<"{", "{">>
    /\ Given[1].runs[1].font = FontA
    /\ Given[1].runs[2].font = FontB
    /\ Left = <<Paragraph(1, <<Run(<<"Example">>, FontA)>>)>>

\* C20: set_text_preserving_format(shape, text) on a shape whose first paragraph has
\* a run leaves one paragraph, the first one, with one run, of the new text and in
\* the original first run's style; when the first paragraph has no run it holds the
\* new text and the other paragraphs are removed all the same.
C20_OneParagraphOneRun ==
    (call.op = "set_text_preserving_format" /\ call.given.has_text_frame /\ Given # <<>>) =>
        /\ Len(Left) = 1
        /\ Left[1].id = Given[1].id
        /\ IF Given[1].runs # <<>>
           THEN /\ Len(Left[1].runs) = 1
                /\ Left[1].runs[1].text = call.text
                /\ SameStyle(Left[1].runs[1].font, Given[1].runs[1].font)
           ELSE JoinRuns(Left[1].runs) = call.text

\* C20 witness: a frame of two paragraphs, the first of three runs, was given new
\* text and is left with one paragraph of one run in the first run's font.
C20_Witness ==
    /\ call.op = "set_text_preserving_format"
    /\ Len(Given) = 2
    /\ Len(Given[1].runs) = 3
    /\ Given[1].runs[1].font = FontB
    /\ call.text = <<"Goodbye">>
    /\ Left = <<Paragraph(1, <<Run(<<"Goodbye">>, FontB)>>)>>


\* The text holds "{{" somewhere and "}}" somewhere.
HoldsBothDelimiters(text) ==
    \E i, j \in 1..(Len(text) - 1) :
        /\ text[i] = "{" /\ text[i + 1] = "{"
        /\ text[j] = "}" /\ text[j + 1] = "}"

\* C26: a paragraph whose joined run text does not hold both "{{" and "}}" is left
\* by render_jinja2_in_textframe as it was, in its place among the paragraphs that
\* were there: same runs, same run texts, same fonts.
C26_NoDelimitersNoChange ==
    call.op = "render_jinja2_in_textframe" =>
        \A k \in 1..Len(Given) :
            ~HoldsBothDelimiters(JoinRuns(Given[k].runs)) =>
                /\ Cardinality({j \in 1..Len(Left) : Left[j].id = Given[k].id}) = 1
                /\ \E j \in 1..Len(Left) : Left[j] = Given[k]
                /\ \A l \in 1..Len(Given) :
                      (l < k /\ ~HoldsBothDelimiters(JoinRuns(Given[l].runs))) =>
                          \E i, j \in 1..Len(Left) :
                              i < j /\ Left[i] = Given[l] /\ Left[j] = Given[k]

\* C26 witness: a paragraph of two runs that holds "}}" but no "{{" is as it was,
\* and so is a literal paragraph that follows an expression rendered to markup.
C26_Witness ==
    /\ call.op = "render_jinja2_in_textframe"
    /\ \/ /\ Len(Given) = 1
          /\ Len(Given[1].runs) = 2
          /\ HasPair(JoinRuns(Given[1].runs), "}")
          /\ ~HasPair(JoinRuns(Given[1].runs), "{")
          /\ Left = Given
       \/ /\ Len(Given) = 2
          /\ Evaluation(Given[1], call.strict).kind = "markup"
          /\ call.converter_ok
          /\ JoinRuns(Given[2].runs) = <<"Finding: ">>
          /\ Left[1] = Given[2]

\* C27: once render_jinja2_in_textframe has returned, every paragraph it visited
\* holds its original runs or the complete rendered result (one run of the rendered
\* text, or the converter's output for markup); no failure leaves a paragraph with
\* its runs removed and nothing in their place.
C27_OriginalOrRendered ==
    call.op = "render_jinja2_in_textframe" =>
        \A k \in 1..Len(Given) :
            LET e == Evaluation(Given[k], call.strict)
            IN  \/ \E j \in 1..Len(Left) : Left[j] = Given[k]
                \/ e.kind = "plain" /\ HoldsRendered(Left, Given[k], e.text)
                \/ e.kind = "markup" /\ \E j \in 1..Len(Left) : JoinRuns(Left[j].runs) = e.text

(***************************************************************************)
(* Properties of the text inherited from the layout (SpecLayoutText).      *)
(***************************************************************************)
\* Paragraph by paragraph the same alignment, level, number of runs, run texts and
\* run style fields.
SameParagraphs(dest, src) ==
    /\ Len(dest) = Len(src)
    /\ \A k \in 1..Len(src) :
          /\ dest[k].alignment = src[k].alignment
          /\ dest[k].level = src[k].level
          /\ Len(dest[k].runs) = Len(src[k].runs)
          /\ \A j \in 1..Len(src[k].runs) :
                /\ dest[k].runs[j].text = src[k].runs[j].text
                /\ SameStyle(dest[k].runs[j].font, src[k].runs[j].font)

\* C21: copy_text_from_layout_preserving_format(dest, source), both with a text
\* frame, leaves dest with as many paragraphs as source and, paragraph by paragraph,
\* the source's alignment, level, number of runs, run texts and run style fields,
\* whatever text dest held before.
C21_CopyMatchesSource ==
    (/\ call.op = "copy_text_from_layout_preserving_format"
     /\ call.given.has_text_frame
     /\ call.source.has_text_frame) =>
        SameParagraphs(Left, call.source.paragraphs)

\* C21 witness: a source of two paragraphs, the first centred at level 1 with three
\* runs of two fonts, was copied onto a destination of two paragraphs that held an
\* expression of its own.
C21_Witness ==
    /\ call.op = "copy_text_from_layout_preserving_format"
    /\ Len(Given) = 2 /\ Len(Given[1].runs) = 3 /\ Given[1].runs[1].font = FontB
    /\ Len(call.source.paragraphs) = 2
    /\ Len(call.source.paragraphs[1].runs) = 3
    /\ Len(Left) = 2
    /\ Left[1].alignment = "CENTER" /\ Left[1].level = 1
    /\ Left[1].runs = <<Run(<<"{", "{">>, FontA), Run(<<"title">>, FontB), Run(<<"}", "}">>, FontB)>>
    /\ Left[2].alignment = "None" /\ Left[2].level = 0
    /\ JoinRuns(Left[2].runs) = <<"Finding: ", "title">>


\* C25: render_jinja2_in_shape copies layout text into a slide shape only when the
\* shape is a placeholder whose text is empty or whitespace and the layout has a
\* placeholder of the same index whose text holds the expression delimiter "{{", and
\* then the shape takes that placeholder's paragraphs; a shape that holds visible
\* text is rendered from its own text alone; a failure while the layout placeholder
\* is looked for leaves the shape to be rendered as it was; no exception leaves the
\* call.
C25_InheritOnlyIntoEmptyPlaceholder ==
    (call.op = "render_jinja2_in_shape" /\ call.given.has_text_frame) =>
        LET own == render_jinja2_in_textframe(Given, call.strict, call.converter_ok)
        IN  /\ call.exc = "none"
            /\ call.inherited # call.given =>
                  /\ call.given.is_placeholder
                  /\ text_is_blank(call.given)
                  /\ \E k \in 1..Len(call.layout) :
                        /\ call.layout[k].idx = call.given.idx
                        /\ call.layout[k].has_text_frame
                        /\ \E l \in 1..Len(call.layout[k].paragraphs) :
                              HasPair(JoinRuns(call.layout[k].paragraphs[l].runs), "{")
                        /\ SameParagraphs(call.inherited.paragraphs, call.layout[k].paragraphs)
            /\ ~text_is_blank(call.given) =>
                  call.inherited = call.given /\ Left = own.paragraphs
            /\ call.lookup_fails =>
                  call.inherited = call.given /\ Left = own.paragraphs

\* C25 witness: a placeholder of index 1 that held a blank took the two paragraphs of
\* the layout's placeholder of index 1, the second placeholder of the layout, and
\* its expression was rendered in the first run's font.
C25_Witness ==
    /\ call.op = "render_jinja2_in_shape"
    /\ call.given.is_placeholder /\ call.given.idx = 1
    /\ Len(Given) = 1 /\ JoinRuns(Given[1].runs) = <<" ">>
    /\ Len(call.layout) = 2
    /\ call.layout[1].idx = 0 /\ call.layout[1].has_text_frame
    /\ call.layout[2].idx = 1 /\ call.layout[2].has_text_frame
    /\ Len(call.layout[2].paragraphs) = 2
    /\ SameParagraphs(call.inherited.paragraphs, call.layout[2].paragraphs)
    /\ Len(Left) = 2
    /\ Left[1].runs = <<Run(<<"Example">>, FontA)>>
    /\ Left[1].alignment = "CENTER"
    /\ JoinRuns(Left[2].runs) = <<"Finding: ", "title">>


(***************************************************************************)
(* Properties of lint (SpecLint).                                          *)
(***************************************************************************)
\* Whether the step is reached by the call, so that it can raise.
LintStepReached(r) ==
    \/ r.step = "os.path.exists"
    \/ r.step \in {"Presentation", "slides"} /\ r.path_exists
    \/ /\ r.step = "validate" /\ r.path_exists
       /\ r.has_report_template /\ slide_mapping.kind # "None"

\* C22: lint returns a (warnings, errors) pair for every input and lets no exception
\* out; a path that does not exist gives exactly one error and no warning, and the
\* template is not opened; an exception raised while the template is loaded or the
\* mapping validated is an entry of errors.
C22_LintNeverRaises ==
    result.op = "lint" =>
        /\ result.value.returned /\ result.value.exc = "none"
        /\ (~result.path_exists /\ result.step # "os.path.exists") =>
              /\ Len(result.value.errors) = 1
              /\ result.value.errors[1].kind = "template_missing"
              /\ result.value.warnings = <<>>
              /\ ~result.value.opened
        /\ (result.step # "none" /\ LintStepReached(result)) =>
              /\ Len(result.value.errors) = 1
              /\ result.value.errors[1].kind \in {"linting_failed", "failed_unexpectedly"}
        /\ (result.step = "none" /\ result.path_exists) =>
              \A i \in 1..Len(result.value.errors) :
                  result.value.errors[i].kind \in {"invalid_mode", "layout_index"}

\* C22 witness: validating the mapping of a template that holds slides raised an
\* exception that is no template error; lint returned the warning about the slides
\* and one error.
C22_Witness ==
    /\ result.op = "lint"
    /\ result.path_exists /\ result.slide_count = 1
    /\ result.step = "validate" /\ result.error = "PackageNotFoundError"
    /\ result.has_report_template /\ slide_mapping.kind = "dict"
    /\ result.value.returned
    /\ Len(result.value.warnings) = 1
    /\ Len(result.value.errors) = 1
    /\ result.value.errors[1].kind = "failed_unexpectedly"

====
